---------------------------- MODULE Spec2Model ----------------------------
(***************************************************************************)
(* Model of the sports-performance analysis app: the video-analysis hook   *)
(* (useVideoAnalysis), the sport detector (detectSportType/classifySport), *)
(* the per-frame analyzers (analyzeBikeFit, analyzeRunningForm), the       *)
(* aggregator (combineAnalyses) and the recommendation enhancers.          *)
(*                                                                         *)
(* Conventions.  Confidence scores are integers in hundredths (0.3 is 30). *)
(* Raw joint angles are integers in tenths of a degree (170.4 is 1704);    *)
(* Math.round brings them to whole degrees.  A value of type "T | null"    *)
(* is a sequence of length at most one: <<>> is null, <<v>> is v.  An      *)
(* optional number that is absent (a missing object key, a keypoint that   *)
(* getKeypoint does not find) is the number Undefined.                     *)
(***************************************************************************)
EXTENDS Integers, Sequences, FiniteSets, TLC

VARIABLES
    \* ---- useVideoAnalysis: React state of the hook
    analysis,        \* T | null
    isAnalyzing,     \* boolean
    progress,        \* number
    error,           \* string
    allFramePoses,   \* FrameAnalysis[] (state)
    \* ---- analyzeVideo: the one run of the async callback
    pc,              \* position of the run (which await it is parked on)
    i,               \* loop counter of the frame loop
    allAnalyses,     \* local array of the run: <<[frame, time, analysis, pose]>>
    resolved,        \* what detectPose/analyzeFunction gave for frames 1..i-1
    detectCalls,     \* detectPose calls made for each frame index
    combineCalls,    \* arguments combineFunction was invoked with
    urlState,        \* object URL of the run: "none" | "created" | "revoked"
    \* ---- environment of the run
    sport,           \* which component mounted the hook: "bike" | "running"
    videoAvailable,  \* the video input is still there
    duration,        \* video.duration (seconds), known once metadata loaded
    \* ---- component state set by onComplete
    enhancedRecs,    \* Recommendation[]
    summary,         \* AnalysisSummary | null (RunningFormAnalysis only)
    \* ---- detectSportType: one run
    spc,             \* position of the run
    si,              \* loop counter
    detections,      \* local array of classifications
    sresolved,       \* what detectPose gave for frames 1..si-1 (names of Samples)
    initFailed,      \* initializePoseDetector() rejected
    sportResult,     \* value the promise resolved with (<<>> while pending)
    sportThrew,      \* the promise rejected (an exception reached the caller)
    \* ---- pure-function harness
    fpose,           \* input pose (Pose | null)
    fout,            \* outputs computed from it
    \* ---- App: component state and the handleFileChange calls in progress
    video,           \* File | null
    preview,         \* object URL of the selected file | ''
    analysisType,    \* 'bike' | 'running' | null
    appDetected,     \* detectedSport: SportType | 'unknown' | null
    isDetectingSport, \* boolean
    appError,        \* error: string
    selections,      \* the handleFileChange calls so far: <<[file, at]>>
    \* ---- useVideoAnalysis: two analyzeVideo runs on one hook and one video element
    runs,            \* per run: the await it is parked on, its loop counter, its analyses
    shown,           \* the hook's state: [analysis, error, isAnalyzing]
    handlers,        \* the run whose callback each video event handler holds (0: none)
    \* ---- poseDetection.ts: the module's detector and the calls in progress
    detector,        \* the module variable: 0 (null) or the detector's number
    createCalls,     \* createDetector calls made so far
    callers          \* per caller: what it called, where it is, what it ended up with

runVars   == <<analysis, isAnalyzing, progress, error, allFramePoses, pc, i,
               allAnalyses, resolved, detectCalls, combineCalls, urlState,
               sport, videoAvailable, duration, enhancedRecs, summary>>
sportVars == <<spc, si, detections, sresolved, initFailed, sportResult, sportThrew>>
pureVars  == <<fpose, fout>>
appVars   == <<video, preview, analysisType, appDetected, isDetectingSport, appError,
               selections>>
overlapVars == <<runs, shown, handlers>>
detVars   == <<detector, createCalls, callers>>
extVars   == <<appVars, overlapVars, detVars>>
vars      == <<runVars, sportVars, pureVars, extVars>>

----------------------------------------------------------------------------
(* Values *)

\* An absent optional number (JS undefined).
Undefined == -1

\* Math.round of a value given in tenths (non-negative).
Round10(t) == (t + 5) \div 10

\* Math.round(n / d) for n >= 0, d > 0 (round half up).
RoundDiv(n, d) == (2 * n + d) \div (2 * d)

Max(a, b) == IF a >= b THEN a ELSE b

RECURSIVE SumSeq(_)
SumSeq(s) == IF s = <<>> THEN 0 ELSE Head(s) + SumSeq(Tail(s))

\* Array.prototype.filter
Filter(s, Test(_)) == SelectSeq(s, Test)

\* Array.prototype.map
Map(s, F(_)) == [k \in 1..Len(s) |-> F(s[k])]

Last(s) == s[Len(s)]

----------------------------------------------------------------------------
(* enhancedRecommendations: severity *)

SEVERITY == [CRITICAL |-> "critical", MODERATE |-> "moderate", MINOR |-> "minor"]

\* Variant: the deviation has to exceed the threshold (> for >=).
DeviationAbove(dist, optimalRange, threshold) ==
    IF optimalRange = 0 THEN TRUE
    ELSE dist * 100 > threshold * optimalRange

\* deviation >= threshold, where deviation = (dist / optimalRange) * 100.
\* A zero optimalRange makes the quotient Infinity (dist > 0 outside the range).
DeviationAtLeast(dist, optimalRange, threshold) ==
    IF optimalRange = 0 THEN TRUE
    ELSE dist * 100 >= threshold * optimalRange

calculateSeverity(value, optimalMin, optimalMax, criticalThreshold, moderateThreshold) ==
    LET optimalRange == optimalMax - optimalMin
        dist == IF value < optimalMin THEN optimalMin - value ELSE value - optimalMax
    IN  IF value >= optimalMin /\ value <= optimalMax THEN SEVERITY.MINOR
        ELSE IF DeviationAtLeast(dist, optimalRange, criticalThreshold) THEN SEVERITY.CRITICAL
        ELSE IF DeviationAtLeast(dist, optimalRange, moderateThreshold) THEN SEVERITY.MODERATE
        ELSE SEVERITY.MINOR

\* criticalThreshold = 20, moderateThreshold = 10 when the caller omits them
calculateSeverityDefault(value, optimalMin, optimalMax) ==
    calculateSeverity(value, optimalMin, optimalMax, 20, 10)

\* The divisors of the divisions by optimalRange a call evaluates (lines 478, 480).
rangeDivisions(value, optimalMin, optimalMax) ==
    IF value >= optimalMin /\ value <= optimalMax THEN <<>>
    ELSE <<optimalMax - optimalMin>>

getSeverityScore(severity) ==
    CASE severity = SEVERITY.CRITICAL -> 3
      [] severity = SEVERITY.MODERATE -> 2
      [] severity = SEVERITY.MINOR    -> 1
      [] OTHER                        -> 0

\* EXERCISES[key].drills, each drill by its first words.
EXERCISES ==
    [kneeTooLow          |-> <<"Raise saddle height", "Single-leg pedaling drills", "Check cleat position">>,
     kneeTooHigh         |-> <<"Lower saddle height", "Test with heel on pedal", "Foam roll quads">>,
     hipTooOpen          |-> <<"Move saddle forward", "Lower handlebars", "Core strengthening">>,
     hipTooCompressed    |-> <<"Raise handlebars", "Move saddle back", "Hip flexor stretches", "Hip mobility">>,
     elbowTooStraight    |-> <<"Shorten stem length", "Raise handlebars with spacers", "Practice bending elbows">>,
     elbowTooBent        |-> <<"Increase reach", "Lower handlebars if comfortable", "Upper body strength">>,
     backTooUpright      |-> <<"Lower handlebars gradually", "Core strength", "Thoracic mobility", "Hamstring stretches">>,
     backTooAggressive   |-> <<"Raise handlebars with spacers", "Shorter stem", "Lower back strengthening", "Cat-cow stretches">>,
     leaningBack         |-> <<"Falling forward drill", "Wall lean drill", "Core engagement", "Land under hips">>,
     leaningTooFar       |-> <<"Posture reset", "Core stability work", "Quicker cadence">>,
     kneeLiftLow         |-> <<"High knee drills", "A-skip and B-skip", "Butt kicks", "Hill repeats">>,
     kneeLiftHigh        |-> <<"Quick ground contact", "Cadence drills", "Stride length reduction">>,
     hipExtensionLimited |-> <<"Hip flexor stretches", "Glute activation", "Leg swings", "Backward running">>,
     armSwingPoor        |-> <<"Arm swing drill", "Practice while seated", "Shoulder mobility", "Relax shoulders">>]

\* One row of an enhancer: area matched, bounds, thresholds, and for a value
\* below / above the optimal range the exercise key ("" for none) and the
\* critical / non-critical impact wording.
BikeFitRules ==
    << [area |-> "Knee Angle", min |-> 140, max |-> 160, crit |-> 25, mod |-> 15,
        lowKey |-> "kneeTooLow",
        lowImpact |-> <<"High risk of knee pain and reduced power output", "May cause discomfort on longer rides">>,
        highKey |-> "kneeTooHigh",
        highImpact |-> <<"Risk of hamstring strain and inefficient pedaling", "Slight inefficiency in power transfer">>],
       [area |-> "Hip Angle", min |-> 40, max |-> 70, crit |-> 30, mod |-> 20,
        lowKey |-> "hipTooCompressed",
        lowImpact |-> <<"Breathing restriction and back pain risk", "May limit comfort on long rides">>,
        highKey |-> "hipTooOpen",
        highImpact |-> <<"Reduced aerodynamics and power generation", "Minor reduction in efficiency">>],
       [area |-> "Elbow Angle", min |-> 140, max |-> 170, crit |-> 25, mod |-> 15,
        lowKey |-> "elbowTooBent",
        lowImpact |-> <<"Excessive weight on arms, fatigue risk", "Slight reduction in comfort">>,
        highKey |-> "elbowTooStraight",
        highImpact |-> <<"Risk of shoulder/neck pain and reduced control", "Minor strain on upper body">>],
       [area |-> "Back Angle", min |-> 35, max |-> 50, crit |-> 30, mod |-> 20,
        lowKey |-> "backTooAggressive",
        lowImpact |-> <<"Back pain risk and breathing limitations", "May cause discomfort over time">>,
        highKey |-> "backTooUpright",
        highImpact |-> <<"Significant aerodynamic drag", "Slight efficiency loss">>] >>

RunningRules ==
    << [area |-> "Body Lean", min |-> 5, max |-> 12, crit |-> 40, mod |-> 25,
        lowKey |-> "leaningBack",
        lowImpact |-> <<"Heel striking and braking forces increase injury risk", "Reduced running efficiency">>,
        highKey |-> "leaningTooFar",
        highImpact |-> <<"Risk of quad strain and forward momentum loss", "Slight balance issues">>],
       [area |-> "Knee Lift", min |-> 100, max |-> 140, crit |-> 30, mod |-> 20,
        lowKey |-> "kneeLiftLow",
        lowImpact |-> <<"Shuffling gait increases injury risk, reduces speed", "Minor stride length reduction">>,
        highKey |-> "kneeLiftHigh",
        highImpact |-> <<"Wasted energy, increased ground contact time", "Slight efficiency loss">>],
       [area |-> "Hip Extension", min |-> 160, max |-> 180, crit |-> 15, mod |-> 10,
        lowKey |-> "hipExtensionLimited",
        lowImpact |-> <<"Reduced power output, compensatory strain on quads/knees", "Mild power loss">>,
        highKey |-> "",
        highImpact |-> <<"", "">>],
       [area |-> "Arm Swing", min |-> 80, max |-> 110, crit |-> 30, mod |-> 20,
        lowKey |-> "armSwingPoor",
        lowImpact |-> <<"Energy waste and rotational imbalance", "Minor balance issues">>,
        highKey |-> "armSwingPoor",
        highImpact |-> <<"Energy waste and rotational imbalance", "Minor balance issues">>] >>

\* Variant: a block runs for its area whether or not there is an angle.
RuleForAnyAngle(rules, rec) ==
    Filter(rules, LAMBDA r : rec.area = r.area)

\* The body of the map callback: the area blocks are run in order, each one
\* overwriting severity / exerciseKey / impact when its area matches and the
\* recommendation has an angle.  Areas are distinct, so at most one matches.
RuleFor(rules, rec) ==
    Filter(rules, LAMBDA r : rec.area = r.area /\ rec.angle # Undefined)

enhanceOne(rules, rec) ==
    LET hit == RuleFor(rules, rec)
        r == hit[1]
        severity == IF hit = <<>> THEN SEVERITY.MINOR
                    ELSE calculateSeverity(rec.angle, r.min, r.max, r.crit, r.mod)
        wording == IF severity = SEVERITY.CRITICAL THEN 1 ELSE 2
        exerciseKey == IF hit = <<>> THEN ""
                       ELSE IF rec.angle < r.min THEN r.lowKey
                       ELSE IF rec.angle > r.max THEN r.highKey
                       ELSE ""
        impact == IF hit = <<>> \/ exerciseKey = "" THEN ""
                  ELSE IF rec.angle < r.min THEN r.lowImpact[wording]
                  ELSE r.highImpact[wording]
        drills == IF exerciseKey = "" THEN <<>> ELSE EXERCISES[exerciseKey]
    IN  [type |-> rec.type, area |-> rec.area, message |-> rec.message,
         angle |-> rec.angle, severity |-> severity, impact |-> impact,
         drills |-> drills, priorityScore |-> getSeverityScore(severity)]

\* Variant: the list is returned in the order of the recommendations.
\* Variant: a sort that orders by score but reverses recommendations of equal
\* score.
sortReversingTies(recs) ==
    LET rev == [k \in 1..Len(recs) |-> recs[Len(recs) + 1 - k]]
    IN  SelectSeq(rev, LAMBDA r : r.priorityScore = 3) \o
        SelectSeq(rev, LAMBDA r : r.priorityScore = 2) \o
        SelectSeq(rev, LAMBDA r : r.priorityScore = 1) \o
        SelectSeq(rev, LAMBDA r : r.priorityScore = 0)

keepOrder(recs) == recs

\* enhanced.sort((a, b) => b.priorityScore - a.priorityScore): Array.prototype.sort
\* is stable, so equal scores keep their order.
sortByPriority(recs) ==
    Filter(recs, LAMBDA r : r.priorityScore = 3) \o
    Filter(recs, LAMBDA r : r.priorityScore = 2) \o
    Filter(recs, LAMBDA r : r.priorityScore = 1) \o
    Filter(recs, LAMBDA r : r.priorityScore = 0)

\* if (!analysis || !analysis.recommendations): the argument is an analysis |
\* null, and an analysis may come without the recommendations field.
noRecommendations(a) == a = <<>> \/ "recommendations" \notin DOMAIN a[1]

enhanceBikeFitRecommendations(a) ==
    IF noRecommendations(a) THEN <<>>
    ELSE sortByPriority(Map(a[1].recommendations, LAMBDA rec : enhanceOne(BikeFitRules, rec)))

enhanceRunningRecommendations(a) ==
    IF noRecommendations(a) THEN <<>>
    ELSE sortByPriority(Map(a[1].recommendations, LAMBDA rec : enhanceOne(RunningRules, rec)))

----------------------------------------------------------------------------
(* enhancedRecommendations, JavaScript version: the area blocks do not test *)
(* rec.angle, so calculateSeverity and the comparisons of each block also   *)
(* run on an undefined angle.                                               *)

\* calculateSeverity(undefined, ...): every comparison with undefined is
\* false, so the value is not in range, the else branch makes deviation NaN,
\* and neither threshold is reached.
calculateSeverityJs(value, optimalMin, optimalMax, criticalThreshold, moderateThreshold) ==
    IF value = Undefined THEN SEVERITY.MINOR
    ELSE calculateSeverity(value, optimalMin, optimalMax, criticalThreshold, moderateThreshold)

\* angle < bound and angle > bound, false for an undefined angle
Below(angle, bound) == angle # Undefined /\ angle < bound
Above(angle, bound) == angle # Undefined /\ angle > bound

enhanceOneJs(rules, rec) ==
    LET hit == Filter(rules, LAMBDA r : rec.area = r.area)
        r == hit[1]
        severity == IF hit = <<>> THEN SEVERITY.MINOR
                    ELSE calculateSeverityJs(rec.angle, r.min, r.max, r.crit, r.mod)
        wording == IF severity = SEVERITY.CRITICAL THEN 1 ELSE 2
        exerciseKey == IF hit = <<>> THEN ""
                       ELSE IF Below(rec.angle, r.min) THEN r.lowKey
                       ELSE IF Above(rec.angle, r.max) THEN r.highKey
                       ELSE ""
        impact == IF hit = <<>> \/ exerciseKey = "" THEN ""
                  ELSE IF Below(rec.angle, r.min) THEN r.lowImpact[wording]
                  ELSE r.highImpact[wording]
        drills == IF exerciseKey = "" THEN <<>> ELSE EXERCISES[exerciseKey]
    IN  [type |-> rec.type, area |-> rec.area, message |-> rec.message,
         angle |-> rec.angle, severity |-> severity, impact |-> impact,
         drills |-> drills, priorityScore |-> getSeverityScore(severity)]

enhanceBikeFitRecommendationsJs(a) ==
    IF noRecommendations(a) THEN <<>>
    ELSE sortByPriority(Map(a[1].recommendations, LAMBDA rec : enhanceOneJs(BikeFitRules, rec)))

enhanceRunningRecommendationsJs(a) ==
    IF noRecommendations(a) THEN <<>>
    ELSE sortByPriority(Map(a[1].recommendations, LAMBDA rec : enhanceOneJs(RunningRules, rec)))


----------------------------------------------------------------------------
(* Poses as the analyzers see them.                                        *)
(*   score         whole-pose confidence (hundredths)                      *)
(*   hasKeypoints  the keypoints collection exists                         *)
(*   kp[side][part]   confidence of the keypoint, Undefined if it is not   *)
(*                    in the collection                                    *)
(*   ang[side][joint] what calculateAngle returns, in tenths of a degree,  *)
(*                    for the three keypoints of that joint on that side   *)
(*   bodyLean      calculateAngle(verticalPoint, avgShoulder, avgHip)      *)
(*   footStrikeOffset  leftAnkle.x - leftKnee.x                            *)

Sides  == {"left", "right"}
Parts  == {"shoulder", "hip", "knee", "ankle", "elbow", "wrist"}
Joints == {"knee", "hip", "back", "elbow"}
AngleKeys == {"knee", "hip", "back", "elbow", "bodyLean", "kneeLift", "hipExtension", "armSwing"}
SideKeys  == {"kneeAngle", "hipAngle", "armAngle"}

NoAngles == [k \in AngleKeys |-> Undefined]
NoSide   == [k \in SideKeys |-> Undefined]

\* Variant: a score of exactly 0.3 counts as confident (>= for >).
ConfidentAtThreshold(pose, side, part) ==
    pose.kp[side][part] # Undefined /\ pose.kp[side][part] >= 30

\* getKeypoint(pose, name) found a keypoint and its score is above 0.3
Confident(pose, side, part) ==
    pose.kp[side][part] # Undefined /\ pose.kp[side][part] > 30

\* calculateAngle(a, b, c) for the joint's three keypoints (trigonometry is
\* not modelled: the pose carries the value the function returns).
calculateAngle(pose, side, joint) == pose.ang[side][joint]

Rec(type, area, message, angle) ==
    [type |-> type, area |-> area, message |-> message, angle |-> angle]

CountType(recs, t) == Len(Filter(recs, LAMBDA r : r.type = t))

\* Variant: the left side is also chosen on equal scores (>= for >).
useLeftSideOrEqual(pose) ==
    Max(pose.kp["left"]["knee"], 0) >= Max(pose.kp["right"]["knee"], 0)

\* (leftKnee?.score || 0) > (rightKnee?.score || 0)
useLeftSide(pose) ==
    Max(pose.kp["left"]["knee"], 0) > Max(pose.kp["right"]["knee"], 0)

\* Variant: a pose whose keypoint list is empty also counts as missing.
missingOrEmptyPose(p) ==
    \/ p = <<>>
    \/ ~p[1].hasKeypoints
    \/ \A sd \in Sides, q \in Parts : p[1].kp[sd][q] = Undefined

\* !pose || !pose.keypoints
missingPose(p) == p = <<>> \/ ~p[1].hasKeypoints

\* Variant: one success already rates a warning-free analysis 'excellent'.
overallFromOneSuccess(recs) ==
    IF CountType(recs, "warning") = 0 /\ CountType(recs, "success") >= 1 THEN "excellent"
    ELSE IF CountType(recs, "warning") <= 1 THEN "good"
    ELSE "needs-adjustment"

bikeOverall(recs) ==
    IF CountType(recs, "warning") = 0 /\ CountType(recs, "success") >= 2 THEN "excellent"
    ELSE IF CountType(recs, "warning") <= 1 THEN "good"
    ELSE "needs-adjustment"

analyzeBikeFit(p) ==
    IF missingPose(p) THEN <<>>
    ELSE
    LET pose == p[1]
        side == IF useLeftSide(pose) THEN "left" ELSE "right"
        ok(part) == Confident(pose, side, part)
        hasKnee  == ok("hip") /\ ok("knee") /\ ok("ankle")
        hasHip   == ok("shoulder") /\ ok("hip") /\ ok("knee")
        hasBack  == ok("shoulder") /\ ok("hip")
        hasElbow == ok("shoulder") /\ ok("elbow") /\ ok("wrist")
        kneeAngle  == calculateAngle(pose, side, "knee")
        hipAngle   == calculateAngle(pose, side, "hip")
        backAngle  == calculateAngle(pose, side, "back")
        elbowAngle == calculateAngle(pose, side, "elbow")
        angles == [k \in AngleKeys |->
                     CASE k = "knee"  /\ hasKnee  -> Round10(kneeAngle)
                       [] k = "hip"   /\ hasHip   -> Round10(hipAngle)
                       [] k = "back"  /\ hasBack  -> Round10(backAngle)
                       [] k = "elbow" /\ hasElbow -> Round10(elbowAngle)
                       [] OTHER -> Undefined]
        kneeRecs ==
            IF ~hasKnee THEN <<>>
            ELSE IF kneeAngle > 1700 THEN
                <<Rec("warning", "Saddle Height", "Saddle may be too high - knee is too straight", angles["knee"])>>
            ELSE IF kneeAngle < 900 THEN
                <<Rec("warning", "Saddle Height", "Saddle may be too low - knee is too bent", angles["knee"])>>
            ELSE IF kneeAngle >= 1400 /\ kneeAngle <= 1600 THEN
                <<Rec("success", "Saddle Height", "Good knee extension", angles["knee"])>>
            ELSE <<>>
        hipRecs ==
            IF ~hasHip THEN <<>>
            ELSE IF hipAngle < 400 THEN
                <<Rec("warning", "Hip Angle", "Hip angle too closed", angles["hip"])>>
            ELSE IF hipAngle >= 400 /\ hipAngle <= 700 THEN
                <<Rec("success", "Hip Angle", "Good hip angle for power transfer", angles["hip"])>>
            ELSE <<>>
        backRecs ==
            IF ~hasBack THEN <<>>
            ELSE IF backAngle < 300 THEN
                <<Rec("info", "Back Angle", "Very upright position - good for comfort", angles["back"])>>
            ELSE IF backAngle >= 350 /\ backAngle <= 500 THEN
                <<Rec("success", "Back Angle", "Good aerodynamic position", angles["back"])>>
            ELSE IF backAngle > 600 THEN
                <<Rec("warning", "Back Angle", "Very aggressive position", angles["back"])>>
            ELSE <<>>
        elbowRecs ==
            IF ~hasElbow THEN <<>>
            ELSE IF elbowAngle > 1700 THEN
                <<Rec("warning", "Elbow Position", "Arms too straight", angles["elbow"])>>
            ELSE IF elbowAngle >= 1400 /\ elbowAngle <= 1700 THEN
                <<Rec("success", "Elbow Position", "Good arm position with slight bend", angles["elbow"])>>
            ELSE <<>>
        recs == kneeRecs \o hipRecs \o backRecs \o elbowRecs
    IN  << [angles |-> angles, recommendations |-> recs, overall |-> bikeOverall(recs),
            confidence |-> Undefined, sides |-> [left |-> NoSide, right |-> NoSide]] >>

----------------------------------------------------------------------------
(* runningAnalysis.js *)

runningOverall(recs) ==
    IF CountType(recs, "warning") = 0 /\ CountType(recs, "success") >= 3 THEN "excellent"
    ELSE IF CountType(recs, "warning") <= 1 THEN "good"
    ELSE "needs-improvement"

\* const xs = []; if (left) xs.push(left); if (right) xs.push(right);
\* a value that is absent or 0 is falsy and is not pushed.
Truthy(l, r) ==
    (IF l # Undefined /\ l # 0 THEN <<l>> ELSE <<>>) \o
    (IF r # Undefined /\ r # 0 THEN <<r>> ELSE <<>>)

\* Math.round(xs.reduce((a, b) => a + b) / xs.length), Undefined for no values
AvgRounded(xs) == IF xs = <<>> THEN Undefined ELSE RoundDiv(SumSeq(xs), Len(xs))

analyzeRunningForm(p) ==
    IF missingPose(p) THEN <<>>
    ELSE
    LET pose == p[1]
        ok(side, part) == Confident(pose, side, part)
        leg(side) == ok(side, "shoulder") /\ ok(side, "hip") /\ ok(side, "knee")
        arm(side) == ok(side, "shoulder") /\ ok(side, "elbow") /\ ok(side, "wrist")
        sideOf(side) ==
            [k \in SideKeys |->
               CASE k = "kneeAngle" /\ leg(side) /\ ok(side, "ankle") ->
                        Round10(calculateAngle(pose, side, "knee"))
                 [] k = "hipAngle" /\ leg(side) -> Round10(calculateAngle(pose, side, "hip"))
                 [] k = "armAngle" /\ arm(side) -> Round10(calculateAngle(pose, side, "elbow"))
                 [] OTHER -> Undefined]
        left  == sideOf("left")
        right == sideOf("right")
        hasLean == ok("left", "shoulder") /\ ok("right", "shoulder") /\
                   ok("left", "hip") /\ ok("right", "hip")
        bodyLean == pose.bodyLean
        avgKneeAngle == AvgRounded(Truthy(left["kneeAngle"], right["kneeAngle"]))
        avgHipAngle  == AvgRounded(Truthy(left["hipAngle"], right["hipAngle"]))
        avgArmAngle  == AvgRounded(Truthy(left["armAngle"], right["armAngle"]))
        angles == [k \in AngleKeys |->
                     CASE k = "bodyLean" /\ hasLean -> Round10(bodyLean)
                       [] k = "kneeLift"     -> avgKneeAngle
                       [] k = "hipExtension" -> avgHipAngle
                       [] k = "armSwing"     -> avgArmAngle
                       [] OTHER -> Undefined]
        leanRecs ==
            IF ~hasLean THEN <<>>
            ELSE IF bodyLean < 30 THEN
                <<Rec("warning", "Posture", "Too upright - lean slightly forward", angles["bodyLean"])>>
            ELSE IF bodyLean >= 50 /\ bodyLean <= 120 THEN
                <<Rec("success", "Posture", "Good forward lean for efficient running", angles["bodyLean"])>>
            ELSE IF bodyLean > 150 THEN
                <<Rec("warning", "Posture", "Leaning too far forward", angles["bodyLean"])>>
            ELSE <<>>
        kneeRecs ==
            IF avgKneeAngle = Undefined THEN <<>>
            ELSE IF avgKneeAngle > 160 THEN
                <<Rec("warning", "Knee Lift", "Insufficient knee lift", avgKneeAngle)>>
            ELSE IF avgKneeAngle >= 100 /\ avgKneeAngle <= 140 THEN
                <<Rec("success", "Knee Lift", "Good knee drive and leg turnover", avgKneeAngle)>>
            ELSE <<>>
        hipRecs ==
            IF avgHipAngle = Undefined THEN <<>>
            ELSE IF avgHipAngle < 140 THEN
                <<Rec("warning", "Hip Extension", "Limited hip extension", avgHipAngle)>>
            ELSE IF avgHipAngle >= 160 THEN
                <<Rec("success", "Hip Extension", "Excellent hip extension and power generation", avgHipAngle)>>
            ELSE <<>>
        armRecs ==
            IF avgArmAngle = Undefined THEN <<>>
            ELSE IF avgArmAngle > 120 THEN
                <<Rec("info", "Arm Swing", "Arms too straight", avgArmAngle)>>
            ELSE IF avgArmAngle >= 80 /\ avgArmAngle <= 110 THEN
                <<Rec("success", "Arm Swing", "Good arm angle for efficient running", avgArmAngle)>>
            ELSE IF avgArmAngle < 70 THEN
                <<Rec("info", "Arm Swing", "Elbows too bent - relax arms slightly", avgArmAngle)>>
            ELSE <<>>
        footStrikeOffset == pose.footStrikeOffset
        absOffset == IF footStrikeOffset < 0 THEN -footStrikeOffset ELSE footStrikeOffset
        footRecs ==
            IF ~(ok("left", "knee") /\ ok("left", "ankle")) THEN <<>>
            ELSE IF absOffset < 30 THEN
                <<Rec("success", "Foot Strike", "Good foot landing position", Undefined)>>
            ELSE IF footStrikeOffset > 30 THEN
                <<Rec("warning", "Foot Strike", "Possible overstriding", Undefined)>>
            ELSE <<>>
        recs == leanRecs \o kneeRecs \o hipRecs \o armRecs \o footRecs
    IN  << [angles |-> angles, recommendations |-> recs, overall |-> runningOverall(recs),
            confidence |-> Max(pose.score, 0),
            sides |-> [left |-> left, right |-> right]] >>

----------------------------------------------------------------------------
(* analysisHelpers.ts *)

\* The values of angle key k over the analyses that have it.
PresentValues(analyses, k) ==
    LET vals == Map(analyses, LAMBDA a : a.angles[k])
    IN  Filter(vals, LAMBDA v : v # Undefined)

\* Variant: the sum of a key is divided by the number of frames.
combineByFrameCount(analyses) ==
    LET avgAngles == [k \in AngleKeys |->
            LET vals == PresentValues(analyses, k)
            IN  IF vals = <<>> THEN Undefined ELSE RoundDiv(SumSeq(vals), Len(analyses))]
    IN  [Last(analyses) EXCEPT !.angles = avgAngles]

\* Precondition: analyses is not empty (the function throws on an empty array).
combineAnalyses(analyses) ==
    LET avgAngles == [k \in AngleKeys |->
            LET vals == PresentValues(analyses, k)
            IN  IF vals = <<>> THEN Undefined ELSE RoundDiv(SumSeq(vals), Len(vals))]
    IN  [Last(analyses) EXCEPT !.angles = avgAngles]

----------------------------------------------------------------------------
(* sportDetection.js: classifySport.  A pose is [score, keypoints], where  *)
(* keypoints is null (<<>>) or (<<kp>>) a function from the keypoint names *)
(* classifySport looks up to keypoint | undefined (<<>> or <<[x, y,        *)
(* score]>>).                                                              *)

SportKeypoints == {"left_hip", "right_hip", "left_knee", "right_knee",
                   "left_ankle", "right_ankle", "left_shoulder", "right_shoulder"}

Abs(n) == IF n < 0 THEN -n ELSE n

\* kp.score < t and kp.score > t; both are false for a score that is undefined
ScoreBelow(kp, t) == kp.score # Undefined /\ kp.score < t
ScoreAbove(kp, t) == kp.score # Undefined /\ kp.score > t

\* Lines 94-96: a required keypoint is missing or its score is below 0.2
requiredMissing(kp) == kp = <<>> \/ ScoreBelow(kp[1], 20)

\* The two scores <<cyclingScore, runningScore>> once the keypoint gate is
\* passed.  Averages are kept doubled (sum of left and right) so that all
\* arithmetic is on integers; ratios compare by cross-multiplication.
sportScores(k) ==
    LET leftHip == k["left_hip"][1]        rightHip == k["right_hip"][1]
        leftKnee == k["left_knee"][1]      rightKnee == k["right_knee"][1]
        hasShoulders == /\ k["left_shoulder"] # <<>> /\ k["right_shoulder"] # <<>>
                        /\ ScoreAbove(k["left_shoulder"][1], 20)
                        /\ ScoreAbove(k["right_shoulder"][1], 20)
        hasAnkles == /\ k["left_ankle"] # <<>> /\ k["right_ankle"] # <<>>
                     /\ ScoreAbove(k["left_ankle"][1], 20)
                     /\ ScoreAbove(k["right_ankle"][1], 20)
        hipY2 == leftHip.y + rightHip.y
        hipX2 == leftHip.x + rightHip.x
        kneeY2 == leftKnee.y + rightKnee.y
        \* 2 * hipKneeVerticalDist
        dist2 == kneeY2 - hipY2
        ankleVariation == IF hasAnkles
                          THEN Abs(k["left_ankle"][1].y - k["right_ankle"][1].y) ELSE 0
        kneeVariation == Abs(leftKnee.y - rightKnee.y)
        \* 2 * shoulderHipVertical, 2 * shoulderHipHorizontal
        vert2 == hipY2 - (k["left_shoulder"][1].y + k["right_shoulder"][1].y)
        horiz2 == Abs((k["left_shoulder"][1].x + k["right_shoulder"][1].x) - hipX2)
        \* bodyLeanForward = horiz / vert if vert > 0, else 0
        leanAbove7 == hasShoulders /\ vert2 > 0 /\ 10 * horiz2 > 7 * vert2
        leanBelow5 == ~hasShoulders \/ vert2 <= 0 \/ 10 * horiz2 < 5 * vert2
        isVeryHorizontal == hasShoulders /\ 10 * horiz2 > 8 * vert2
        c1 == IF dist2 > 100 /\ dist2 < 360 /\ isVeryHorizontal THEN 4 ELSE 0
        c2 == IF hasAnkles /\ ankleVariation < 60 THEN 3 ELSE 0
        c3 == IF kneeVariation < 50 THEN 2 ELSE 0
        c4 == IF isVeryHorizontal /\ leanAbove7 THEN 4 ELSE 0
        r1 == IF dist2 > 200 THEN 4 ELSE 0
        r2 == IF hasAnkles /\ ankleVariation > 30 THEN 4 ELSE 0
        r3 == IF kneeVariation > 30 THEN 4 ELSE 0
        r4 == IF hasShoulders /\ ~isVeryHorizontal THEN 3 ELSE 0
        r5 == IF hasShoulders /\ leanBelow5 THEN 2 ELSE 0
        penalty == kneeVariation > 60 \/ (hasAnkles /\ ankleVariation > 80)
        cycling == c1 + c2 + c3 + c4
    IN  << IF penalty THEN Max(0, cycling - 3) ELSE cycling,
           r1 + r2 + r3 + r4 + r5 >>

\* Variant: running needs a score above 6 (> for >=).
decideSportAbove(cyclingScore, runningScore) ==
    IF runningScore > 6 THEN <<"running">>
    ELSE IF cyclingScore >= 7 /\ cyclingScore > runningScore THEN <<"cycling">>
    ELSE IF runningScore > cyclingScore /\ runningScore >= 4 THEN <<"running">>
    ELSE IF cyclingScore > runningScore /\ cyclingScore >= 4 THEN <<"cycling">>
    ELSE IF runningScore >= cyclingScore THEN <<"running">>
    ELSE <<>>

\* Lines 211-223: the decision from the two scores ('running' | 'cycling' | null)
decideSport(cyclingScore, runningScore) ==
    IF runningScore >= 6 THEN <<"running">>
    ELSE IF cyclingScore >= 7 /\ cyclingScore > runningScore THEN <<"cycling">>
    ELSE IF runningScore > cyclingScore /\ runningScore >= 4 THEN <<"running">>
    ELSE IF cyclingScore > runningScore /\ cyclingScore >= 4 THEN <<"cycling">>
    ELSE IF runningScore >= cyclingScore THEN <<"running">>
    ELSE <<>>

\* The argument is a pose | null.
classifySport(p) ==
    IF p = <<>> \/ p[1].keypoints = <<>> THEN <<>>
    ELSE LET k == p[1].keypoints[1]
         IN  IF requiredMissing(k["left_hip"]) \/ requiredMissing(k["right_hip"])
                  \/ requiredMissing(k["left_knee"]) \/ requiredMissing(k["right_knee"])
             THEN <<>>
             ELSE LET sc == sportScores(k) IN decideSport(sc[1], sc[2])

----------------------------------------------------------------------------
(* analysisSummary.ts: generateDetailedSummary.  The headline, the angle   *)
(* strengths, the recommendation improvements and the top priority are     *)
(* modelled; the consistency and asymmetry call-outs (which only add items *)
(* to strengths / improvements) are not.                                   *)

InRange(v, lo, hi) == v # Undefined /\ v # 0 /\ v >= lo /\ v <= hi

generateDetailedSummary(recommendations, angles, overall, sportType) ==
    LET criticalIssues == Filter(recommendations, LAMBDA r : r.severity = "critical")
        moderateIssues == Filter(recommendations, LAMBDA r : r.severity = "moderate")
        minorIssues    == Filter(recommendations, LAMBDA r : r.severity = "minor")
        headline ==
            IF Len(criticalIssues) > 0 THEN "critical issues detected - immediate attention needed"
            ELSE IF Len(moderateIssues) > 0 THEN "Form is functional but areas need improvement"
            ELSE IF Len(minorIssues) > 0 THEN "Good form overall - minor optimizations available"
            ELSE "Excellent form - all measurements within optimal ranges"
        good ==
            IF sportType = "bike" THEN
                (IF InRange(angles["knee"], 140, 160) THEN <<"Knee angle is optimal">> ELSE <<>>) \o
                (IF InRange(angles["hip"], 40, 70) THEN <<"Hip angle is in ideal range">> ELSE <<>>) \o
                (IF InRange(angles["elbow"], 140, 170) THEN <<"Elbow position is good">> ELSE <<>>) \o
                (IF InRange(angles["back"], 35, 50) THEN <<"Back angle shows good aerodynamic position">> ELSE <<>>)
            ELSE
                (IF InRange(angles["kneeLift"], 70, 95) THEN <<"Knee lift is optimal">> ELSE <<>>) \o
                (IF InRange(angles["bodyLean"], 3, 8) THEN <<"Body lean is perfect">> ELSE <<>>) \o
                (IF InRange(angles["armSwing"], 70, 100) THEN <<"Arm swing is efficient">> ELSE <<>>)
        strengths == IF good = <<>> THEN <<"Analysis in progress - continue with current form">>
                     ELSE good
        issues == criticalIssues \o moderateIssues
        top4 == SubSeq(issues, 1, IF Len(issues) < 4 THEN Len(issues) ELSE 4)
        listed == Map(top4, LAMBDA r : <<r.area, r.angle, r.message, r.impact>>)
        improvements == IF listed = <<>> THEN <<<<"No significant issues detected">>>>
                        ELSE listed
        first == IF Len(criticalIssues) > 0 THEN criticalIssues[1] ELSE moderateIssues[1]
        topPriority ==
            IF issues = <<>> THEN <<"Maintain your excellent form">>
            ELSE <<IF Len(criticalIssues) > 0 THEN "Priority #1" ELSE "Focus on",
                   first.area, first.message>> \o
                 (IF Len(first.drills) > 0 THEN <<first.drills[1]>> ELSE <<>>)
    IN  [headline |-> headline, strengths |-> strengths,
         improvements |-> improvements, topPriority |-> topPriority]

----------------------------------------------------------------------------
(* useVideoAnalysis.ts: one mounted component and one run of analyzeVideo  *)

\* Frames sampled per run (the components pass 24).
framesToAnalyze == 3

Frames == 1..framesToAnalyze

CouldNotDetect == "Could not detect person in video. Please ensure the full body is visible from the side."
FailedToAnalyze == "Failed to analyze video. Please try again."

\* video.duration values, in seconds (uploads are limited to 30 s)
Durations == {4, 30}

KpAll(c) == [s \in Sides |-> [q \in Parts |-> c]]

MkPose(score, hasKeypoints, conf, knee, hip, elbow) ==
    [score |-> score, hasKeypoints |-> hasKeypoints, kp |-> KpAll(conf),
     ang |-> [s \in Sides |-> [j \in Joints |->
                CASE j = "knee" -> knee [] j = "hip" -> hip
                  [] j = "elbow" -> elbow [] OTHER -> 400]],
     bodyLean |-> 80, footStrikeOffset |-> 10]

\* What detectPose can resolve with for a frame of the video.
VideoPoses ==
    { MkPose(90, TRUE, 90, 1200, 600, 1500),     \* a clear frame
      MkPose(90, TRUE, 90, 1700, 200, 1500),     \* a clear frame, other posture
      MkPose(30, TRUE, 90, 1200, 600, 1500),     \* whole-pose score exactly 0.3
      MkPose(90, FALSE, 90, 1200, 600, 1500) }   \* no keypoints collection

\* A frame's detection: detectPose threw, or resolved with a pose | null.
Outcomes == {[threw |-> TRUE, pose |-> <<>>], [threw |-> FALSE, pose |-> <<>>]}
            \cup {[threw |-> FALSE, pose |-> <<p>>] : p \in VideoPoses}

analyzeFunction(p) == IF sport = "bike" THEN analyzeBikeFit(p) ELSE analyzeRunningForm(p)

\* Variant: a pose at the threshold is accepted (>= for >).
poseAcceptedAtThreshold(o) == o.pose # <<>> /\ o.pose[1].score >= 30

\* if (pose && pose.score > 0.3)
poseAccepted(o) == o.pose # <<>> /\ o.pose[1].score > 30

\* Variant: the entry is put in front (unshift for push).
pushFront(arr, entry) == <<entry>> \o arr

\* allAnalyses.push(entry)
push(arr, entry) == Append(arr, entry)

\* Variant: the aggregator is called whatever was collected (>= for >).
hasAnalysesAlways(arr) == Len(arr) >= 0

\* if (allAnalyses.length > 0)
hasAnalyses(arr) == Len(arr) > 0

\* the loop's i++
nextFrame(k) == k + 1

\* The try block of the loop body for frame i with detection outcome o.
frameResult(arr, k, o) ==
    IF o.threw THEN arr
    ELSE IF poseAccepted(o) THEN
        LET frameAnalysis == analyzeFunction(o.pose)
        IN  IF frameAnalysis # <<>>
            THEN push(arr, [frame |-> k, time |-> k * duration,
                            analysis |-> frameAnalysis[1], pose |-> o.pose[1]])
            ELSE arr
    ELSE arr

\* catch (err) { setError(...) } finally { setIsAnalyzing(false) }
Caught ==
    /\ error' = FailedToAnalyze
    /\ isAnalyzing' = FALSE
    /\ pc' = "done"

RunIdle ==
    /\ analysis = <<>> /\ isAnalyzing = FALSE /\ progress = 0 /\ error = ""
    /\ allFramePoses = <<>> /\ pc = "idle" /\ i = 0 /\ allAnalyses = <<>>
    /\ resolved = <<>> /\ detectCalls = [k \in Frames |-> 0]
    /\ combineCalls = <<>> /\ urlState = "none" /\ videoAvailable = TRUE
    /\ duration = 0 /\ enhancedRecs = <<>> /\ summary = <<>>

\* useEffect: if (videoFile) analyzeVideo(), up to the first await
StartAnalysis ==
    /\ UNCHANGED <<sportVars, pureVars, extVars>>
    /\ pc = "idle"
    /\ isAnalyzing' = TRUE
    /\ error' = ""
    /\ progress' = 10
    /\ pc' = "init"
    /\ UNCHANGED <<analysis, allFramePoses, i, allAnalyses, resolved, detectCalls,
                   combineCalls, urlState, sport, videoAvailable, duration,
                   enhancedRecs, summary>>

\* initializePoseDetector() resolved; the object URL is created and the
\* metadata load starts (videoRef.current is set: the effect runs after mount)
InitResolved ==
    /\ UNCHANGED <<sportVars, pureVars, extVars>>
    /\ pc = "init"
    /\ progress' = 20
    /\ urlState' = "created"
    /\ pc' = "load"
    /\ UNCHANGED <<analysis, isAnalyzing, error, allFramePoses, i, allAnalyses,
                   resolved, detectCalls, combineCalls, sport, videoAvailable,
                   duration, enhancedRecs, summary>>

\* initializePoseDetector() rejected
InitRejected ==
    /\ UNCHANGED <<sportVars, pureVars, extVars>>
    /\ pc = "init"
    /\ Caught
    /\ UNCHANGED <<analysis, progress, allFramePoses, i, allAnalyses, resolved,
                   detectCalls, combineCalls, urlState, sport, videoAvailable,
                   duration, enhancedRecs, summary>>

\* video.onloadedmetadata fired
MetadataLoaded ==
    /\ UNCHANGED <<sportVars, pureVars, extVars>>
    /\ pc = "load"
    /\ videoAvailable
    /\ \E d \in Durations, dimsOk \in BOOLEAN :
          /\ duration' = d
          /\ IF dimsOk
             THEN /\ pc' = "seekMid"
                  /\ UNCHANGED <<error, isAnalyzing>>
             ELSE Caught
    /\ UNCHANGED <<analysis, progress, allFramePoses, i, allAnalyses, resolved,
                   detectCalls, combineCalls, urlState, sport, videoAvailable,
                   enhancedRecs, summary>>

\* video.onerror fired while the metadata promise is pending
VideoError ==
    /\ UNCHANGED <<sportVars, pureVars, extVars>>
    /\ pc = "load"
    /\ Caught
    /\ UNCHANGED <<analysis, progress, allFramePoses, i, allAnalyses, resolved,
                   detectCalls, combineCalls, urlState, sport, videoAvailable,
                   duration, enhancedRecs, summary>>

\* The video input disappears while the run is in progress: from then on
\* the element fires neither loadedmetadata nor seeked.
VideoGone ==
    /\ UNCHANGED <<sportVars, pureVars, extVars>>
    /\ pc \in {"load", "seekMid", "seek", "delay", "detect"}
    /\ videoAvailable
    /\ videoAvailable' = FALSE
    /\ UNCHANGED <<analysis, isAnalyzing, progress, error, allFramePoses, pc, i,
                   allAnalyses, resolved, detectCalls, combineCalls, urlState,
                   sport, duration, enhancedRecs, summary>>

\* seeked fired for the seek to duration / 2; the loop starts and seeks frame 1
SeekedMid ==
    /\ UNCHANGED <<sportVars, pureVars, extVars>>
    /\ pc = "seekMid"
    /\ videoAvailable
    /\ progress' = 30
    /\ i' = 1
    /\ pc' = "seek"
    /\ UNCHANGED <<analysis, isAnalyzing, error, allFramePoses, allAnalyses,
                   resolved, detectCalls, combineCalls, urlState, sport,
                   videoAvailable, duration, enhancedRecs, summary>>

\* seeked fired for frame i; the 100 ms timer is started
Seeked ==
    /\ UNCHANGED <<sportVars, pureVars, extVars>>
    /\ pc = "seek"
    /\ videoAvailable
    /\ pc' = "delay"
    /\ UNCHANGED <<analysis, isAnalyzing, progress, error, allFramePoses, i,
                   allAnalyses, resolved, detectCalls, combineCalls, urlState,
                   sport, videoAvailable, duration, enhancedRecs, summary>>

\* the timer fired; detectPose(video) is called
FrameDelay ==
    /\ UNCHANGED <<sportVars, pureVars, extVars>>
    /\ pc = "delay"
    /\ detectCalls' = [detectCalls EXCEPT ![i] = @ + 1]
    /\ pc' = "detect"
    /\ UNCHANGED <<analysis, isAnalyzing, progress, error, allFramePoses, i,
                   allAnalyses, resolved, combineCalls, urlState, sport,
                   videoAvailable, duration, enhancedRecs, summary>>

\* onComplete of the mounting component
OnComplete(combined, all) ==
    IF sport = "bike"
    THEN /\ enhancedRecs' = enhanceBikeFitRecommendations(<<combined>>)
         /\ UNCHANGED summary
    ELSE LET enhanced == enhanceRunningRecommendations(<<combined>>)
         IN  /\ enhancedRecs' = enhanced
             /\ summary' = <<generateDetailedSummary(enhanced, combined.angles,
                                                     combined.overall, "running")>>

\* After the loop: combine, publish, revoke the URL; finally.
Finish(all) ==
    IF hasAnalyses(all)
    THEN LET analyses == Map(all, LAMBDA a : a.analysis)
         IN  /\ combineCalls' = Append(combineCalls, Map(all, LAMBDA a : a.frame))
             /\ IF analyses = <<>>
                THEN \* combineAnalyses throws 'No analyses to combine'
                     /\ Caught
                     /\ UNCHANGED <<analysis, allFramePoses, progress, urlState,
                                    enhancedRecs, summary>>
                ELSE LET combinedAnalysis == combineAnalyses(analyses)
                     IN  /\ analysis' = <<combinedAnalysis>>
                         /\ allFramePoses' = all
                         /\ OnComplete(combinedAnalysis, all)
                         /\ progress' = 100
                         /\ urlState' = "revoked"
                         /\ isAnalyzing' = FALSE
                         /\ pc' = "done"
                         /\ UNCHANGED error
    ELSE /\ error' = CouldNotDetect
         /\ progress' = 100
         /\ urlState' = "revoked"
         /\ isAnalyzing' = FALSE
         /\ pc' = "done"
         /\ UNCHANGED <<analysis, allFramePoses, combineCalls, enhancedRecs, summary>>

\* detectPose settled for frame i: the rest of the loop body, and either the
\* seek of the next frame or everything after the loop.
DetectResolved ==
    /\ UNCHANGED <<sportVars, pureVars, extVars>>
    /\ pc = "detect"
    /\ \E o \in Outcomes :
          LET all == frameResult(allAnalyses, i, o)
          IN  /\ allAnalyses' = all
              /\ resolved' = Append(resolved, o)
              /\ IF i < framesToAnalyze
                 THEN /\ progress' = 30 + (i * 60) \div framesToAnalyze
                      /\ i' = nextFrame(i)
                      /\ pc' = "seek"
                      /\ UNCHANGED <<analysis, isAnalyzing, error, allFramePoses,
                                     combineCalls, urlState, enhancedRecs, summary>>
                 ELSE /\ i' = nextFrame(i)
                      /\ Finish(all)
    /\ UNCHANGED <<detectCalls, sport, videoAvailable, duration>>

SportIdle ==
    /\ spc = "idle" /\ si = 0 /\ detections = <<>> /\ sresolved = <<>>
    /\ initFailed = FALSE /\ sportResult = <<>> /\ sportThrew = FALSE

PureIdle == fpose = <<>> /\ fout = <<>>

AppIdle ==
    /\ video = <<>> /\ preview = <<>> /\ analysisType = <<>> /\ appDetected = <<>>
    /\ isDetectingSport = FALSE /\ appError = "" /\ selections = <<>>

\* Most runs of analyzeVideo in progress on one hook at once.
MaxRuns == 2

OverlapIdle ==
    /\ runs = [r \in 1..MaxRuns |-> [at |-> "idle", i |-> 0, found |-> FALSE]]
    /\ shown = [analysis |-> 0, error |-> 0, isAnalyzing |-> FALSE]
    /\ handlers = [onloadedmetadata |-> 0, onerror |-> 0, onseeked |-> 0]

\* Most concurrent calls into the pose-detection module.
MaxCallers == 3

DetIdle ==
    /\ detector = 0 /\ createCalls = 0
    /\ callers = [c \in 1..MaxCallers |-> [fn |-> "", at |-> "idle", got |-> 0]]

ExtIdle == AppIdle /\ OverlapIdle /\ DetIdle

\* The steps the browser and the detector guarantee once their cause exists.
RunStep ==
    \/ StartAnalysis
    \/ InitResolved
    \/ MetadataLoaded
    \/ SeekedMid
    \/ Seeked
    \/ FrameDelay
    \/ DetectResolved

RunInit == sport \in {"bike", "running"} /\ RunIdle /\ SportIdle /\ PureIdle /\ ExtIdle

RunNext ==
    \/ RunStep
    \/ InitRejected
    \/ VideoError
    \/ VideoGone

RunSpec == RunInit /\ [][RunNext]_vars

\* The event loop runs every continuation whose promise has settled.
FairRunSpec == RunSpec /\ WF_vars(RunStep)

----------------------------------------------------------------------------
(* Properties of the analysis run *)

\* A frame's detection gave a usable analysis: detectPose did not throw, it
\* returned a pose, the pose's score is above 0.3 and the analyzer did not
\* return null.
Usable(o) ==
    /\ ~o.threw
    /\ o.pose # <<>>
    /\ o.pose[1].score > 30
    /\ analyzeFunction(o.pose) # <<>>

CollectedFrames == {allAnalyses[k].frame : k \in 1..Len(allAnalyses)}

InLoop == pc \in {"seek", "delay", "detect"}

\* C1: a frame whose detection throws, returns no pose, returns a pose with
\* score not above 0.3, or whose analyzer returns null adds nothing to the
\* collected analyses; detectPose is called at most once per frame (no
\* retry); and once the loop has started, the run only ends after every
\* frame has been detected, and never through the catch block.
C1_FailedFrameDropped ==
    /\ \A k \in Frames : detectCalls[k] <= 1
    /\ \A k \in 1..Len(resolved) : detectCalls[k] = 1
    /\ \A k \in 1..Len(resolved) : ~Usable(resolved[k]) => k \notin CollectedFrames
    /\ (Len(resolved) > 0 /\ Len(resolved) < framesToAnalyze) => (InLoop /\ isAnalyzing)
    /\ (pc = "done" /\ Len(resolved) > 0) =>
          (Len(resolved) = framesToAnalyze /\ error # FailedToAnalyze)

\* A finished run in which frame 1 threw, frame 2 had score 0.3, and a later
\* frame was still analysed and is the only one collected.
C1_Witness ==
    /\ pc = "done"
    /\ Len(resolved) = framesToAnalyze
    /\ resolved[1].threw
    /\ resolved[2].pose # <<>> /\ resolved[2].pose[1].score = 30
    /\ Usable(resolved[framesToAnalyze])
    /\ CollectedFrames = {framesToAnalyze}

\* C2: a started run never stays in progress forever, also when the video
\* input becomes unavailable during it.
C2_RunEnds == isAnalyzing ~> ~isAnalyzing

\* C3: combineFunction is only ever invoked with at least one analysis, and a
\* run that finishes with no usable frame ends with the 'could not detect'
\* message, without entering the catch block, with no analysis set and
\* without calling the aggregator.
C3_NoUsableFrame ==
    /\ \A c \in 1..Len(combineCalls) : Len(combineCalls[c]) >= 1
    /\ (pc = "done" /\ Len(resolved) = framesToAnalyze
          /\ \A k \in Frames : ~Usable(resolved[k])) =>
             (error = CouldNotDetect /\ analysis = <<>> /\ combineCalls = <<>>
                /\ ~isAnalyzing)

\* A run that went through every frame and collected nothing.
C3_Witness ==
    /\ pc = "done"
    /\ Len(resolved) = framesToAnalyze
    /\ allAnalyses = <<>>
    /\ error = CouldNotDetect

\* C4: frame i+1 is sought and detected only after frame i's detection has
\* resolved; the collected analyses are in strictly increasing frame-time
\* order; and the last element handed to the aggregator comes from the
\* latest usable frame.
C4_SequentialOrder ==
    /\ InLoop => Len(resolved) = i - 1
    /\ \A k \in Frames : detectCalls[k] > 0 => Len(resolved) >= k - 1
    /\ \A k \in 1..(Len(allAnalyses) - 1) : allAnalyses[k].time < allAnalyses[k + 1].time
    /\ \A c \in 1..Len(combineCalls) :
          LET lastFrame == Last(combineCalls[c])
          IN  /\ Usable(resolved[lastFrame])
              /\ \A k \in 1..Len(resolved) : Usable(resolved[k]) => k <= lastFrame

\* The aggregator was called with two analyses and the last frame of the
\* video was not usable.
C4_Witness ==
    /\ pc = "done"
    /\ Len(combineCalls) = 1
    /\ Len(combineCalls[1]) >= 2
    /\ ~Usable(resolved[framesToAnalyze])

\* The angle key an enhancer area grades.
AngleKeyOf(area) ==
    CASE area = "Knee Angle" -> "knee"
      [] area = "Hip Angle" -> "hip"
      [] area = "Elbow Angle" -> "elbow"
      [] area = "Back Angle" -> "back"
      [] area = "Body Lean" -> "bodyLean"
      [] area = "Knee Lift" -> "kneeLift"
      [] area = "Hip Extension" -> "hipExtension"
      [] area = "Arm Swing" -> "armSwing"

RulesOf(sp) == IF sp = "bike" THEN BikeFitRules ELSE RunningRules

\* C5: in the combined result, the severity of every recommendation the
\* enhancer grades is the severity of the per-video average of its angle.
C5_SeverityFromAverage ==
    (pc = "done" /\ analysis # <<>>) =>
        \A n \in 1..Len(enhancedRecs) : \A m \in 1..Len(RulesOf(sport)) :
            LET rec == enhancedRecs[n]
                r == RulesOf(sport)[m]
            IN  (rec.area = r.area /\ rec.angle # Undefined) =>
                    rec.severity = calculateSeverity(analysis[1].angles[AngleKeyOf(r.area)],
                                                     r.min, r.max, r.crit, r.mod)

\* AnalysisResults is rendered: {analysis && !isAnalyzing && (...)} in
\* BikeFitAnalysis, {analysis && !isAnalyzing && summary && (...)} in
\* RunningFormAnalysis.
ResultsRendered ==
    /\ analysis # <<>>
    /\ ~isAnalyzing
    /\ sport = "running" => summary # <<>>

\* The summary prop AnalysisResults is given: RunningFormAnalysis passes its
\* summary state, BikeFitAnalysis passes none (undefined, here <<>>).
summaryProp == IF sport = "running" THEN summary ELSE <<>>

\* C7: whenever the results view is rendered, it is given a defined summary
\* with a headline, strengths, improvements and a top priority.
C7_SummaryDefined ==
    ResultsRendered =>
        /\ summaryProp # <<>>
        /\ summaryProp[1].headline # ""
        /\ DOMAIN summaryProp[1] =
              {"headline", "strengths", "improvements", "topPriority"}

----------------------------------------------------------------------------
(* sportDetection.js: detectSportType *)

\* const framesToCheck = 5
framesToCheck == 5

KP(x, y, score) == <<[x |-> x, y |-> y, score |-> score]>>

\* A pose with hips at y = 150; the knees, ankles and shoulders are given as
\* <<>> (no such keypoints) or by their coordinates.  hs and ks are the
\* [left, right] hip and knee scores, <<>> for a keypoint that is not found.
MkSportPose(score, hs, ks, kneeY, ankleY, shoulder) ==
    [score |-> score,
     keypoints |-> <<[n \in SportKeypoints |->
        CASE n = "left_hip"   -> IF hs.left = <<>> THEN <<>> ELSE KP(100, 150, hs.left[1])
          [] n = "right_hip"  -> IF hs.right = <<>> THEN <<>> ELSE KP(110, 150, hs.right[1])
          [] n = "left_knee"  -> IF ks.left = <<>> THEN <<>> ELSE KP(100, kneeY[1], ks.left[1])
          [] n = "right_knee" -> IF ks.right = <<>> THEN <<>> ELSE KP(110, kneeY[2], ks.right[1])
          [] n = "left_ankle"  -> IF ankleY = <<>> THEN <<>> ELSE KP(100, ankleY[1], 90)
          [] n = "right_ankle" -> IF ankleY = <<>> THEN <<>> ELSE KP(110, ankleY[2], 90)
          [] n = "left_shoulder"  ->
                IF shoulder = <<>> THEN <<>> ELSE KP(shoulder[1], shoulder[2], 90)
          [] n = "right_shoulder" ->
                IF shoulder = <<>> THEN <<>> ELSE KP(shoulder[1] + 10, shoulder[2], 90)]>>]

BothScores(c) == [left |-> <<c>>, right |-> <<c>>]

\* The frames a video can show to detectSportType, by name.
Samples == {"throws", "nobody", "runner", "cyclist", "faint", "unclear"}

\* What detectPose resolves with for a sample (it throws for "throws").
SamplePose(name) ==
    CASE name = "runner"  ->
            <<MkSportPose(90, BothScores(90), BothScores(90), <<200, 330>>, <<350, 440>>, <<100, 50>>)>>
      [] name = "cyclist" ->
            <<MkSportPose(90, BothScores(90), BothScores(90), <<200, 205>>, <<230, 235>>, <<40, 145>>)>>
      [] name = "faint"   ->
            <<MkSportPose(30, BothScores(90), BothScores(90), <<200, 330>>, <<350, 440>>, <<100, 50>>)>>
      [] name = "unclear" ->
            <<MkSportPose(90, BothScores(90), BothScores(90), <<200, 205>>, <<>>, <<>>)>>
      [] OTHER -> <<>>

\* Variant: a pose at the threshold is classified (>= for >).
sportPoseAcceptedAtThreshold(p) == p # <<>> /\ p[1].score >= 30

\* if (pose && pose.score > 0.3)
sportPoseAccepted(p) == p # <<>> /\ p[1].score > 30

\* The try block of the loop body: the detections after a frame showing name.
frameDetection(dets, name) ==
    IF name = "throws" THEN dets
    ELSE LET pose == SamplePose(name)
         IN  IF sportPoseAccepted(pose)
             THEN LET sportType == classifySport(pose)
                  IN  IF sportType # <<>> THEN Append(dets, sportType[1]) ELSE dets
             ELSE dets

\* sportCounts[sport]
sportCount(dets, sp) == Len(Filter(dets, LAMBDA d : d = sp))

\* Object.keys(sportCounts): the sports in the order of their first detection
RECURSIVE sportKeys(_)
sportKeys(dets) ==
    IF dets = <<>> THEN <<>>
    ELSE LET before == sportKeys(SubSeq(dets, 1, Len(dets) - 1))
             d == dets[Len(dets)]
         IN  IF \E j \in 1..Len(before) : before[j] = d THEN before ELSE Append(before, d)

\* Variant: the earlier key is kept on equal counts (>= for >).
moreCommonOrEarlier(dets, a, b) ==
    IF sportCount(dets, a) >= sportCount(dets, b) THEN a ELSE b

\* (a, b) => sportCounts[a] > sportCounts[b] ? a : b
moreCommon(dets, a, b) ==
    IF sportCount(dets, a) > sportCount(dets, b) THEN a ELSE b

\* keys.reduce(f) without an initial value
RECURSIVE reduceKeys(_, _)
reduceKeys(dets, keys) ==
    IF Len(keys) = 1 THEN keys[1]
    ELSE moreCommon(dets, reduceKeys(dets, SubSeq(keys, 1, Len(keys) - 1)), keys[Len(keys)])

\* Lines 57-71
detectedSport(dets) ==
    IF Len(dets) = 0 THEN "unknown" ELSE reduceKeys(dets, sportKeys(dets))

\* catch (error) { return 'unknown' }
SportCaught ==
    /\ sportResult' = <<"unknown">>
    /\ sportThrew' = FALSE
    /\ spc' = "done"

\* detectSportType(videoFile), up to the first await
DetectSportType ==
    /\ UNCHANGED <<runVars, pureVars, extVars>>
    /\ spc = "idle"
    /\ spc' = "init"
    /\ UNCHANGED <<si, detections, sresolved, initFailed, sportResult, sportThrew>>

\* initializePoseDetector() resolved; the metadata load starts
SportInitResolved ==
    /\ UNCHANGED <<runVars, pureVars, extVars>>
    /\ spc = "init"
    /\ spc' = "load"
    /\ UNCHANGED <<si, detections, sresolved, initFailed, sportResult, sportThrew>>

\* initializePoseDetector() rejected
SportInitRejected ==
    /\ UNCHANGED <<runVars, pureVars, extVars>>
    /\ spc = "init"
    /\ initFailed' = TRUE
    /\ SportCaught
    /\ UNCHANGED <<si, detections, sresolved>>

\* video.onloadedmetadata; a video without dimensions throws, otherwise the
\* loop starts with the seek to frame 1
SportMetadataLoaded ==
    /\ UNCHANGED <<runVars, pureVars, extVars>>
    /\ spc = "load"
    /\ \E hasDimensions \in BOOLEAN :
         IF hasDimensions
         THEN /\ si' = 1
              /\ spc' = "seek"
              /\ UNCHANGED <<sportResult, sportThrew>>
         ELSE /\ SportCaught
              /\ UNCHANGED si
    /\ UNCHANGED <<detections, sresolved, initFailed>>

\* video.onerror during the metadata load
SportVideoError ==
    /\ UNCHANGED <<runVars, pureVars, extVars>>
    /\ spc = "load"
    /\ SportCaught
    /\ UNCHANGED <<si, detections, sresolved, initFailed>>

\* video.onseeked
SportSeeked ==
    /\ UNCHANGED <<runVars, pureVars, extVars>>
    /\ spc = "seek"
    /\ spc' = "delay"
    /\ UNCHANGED <<si, detections, sresolved, initFailed, sportResult, sportThrew>>

\* the 100 ms timer; detectPose(video) is called
SportFrameDelay ==
    /\ UNCHANGED <<runVars, pureVars, extVars>>
    /\ spc = "delay"
    /\ spc' = "detect"
    /\ UNCHANGED <<si, detections, sresolved, initFailed, sportResult, sportThrew>>

\* detectPose settled for frame si: the rest of the loop body, then either
\* the seek to the next frame or the vote and the return
SportDetectResolved ==
    /\ UNCHANGED <<runVars, pureVars, extVars>>
    /\ spc = "detect"
    /\ \E name \in Samples :
         LET dets == frameDetection(detections, name)
         IN  /\ sresolved' = Append(sresolved, name)
             /\ detections' = dets
             /\ si' = si + 1
             /\ IF si < framesToCheck
                THEN /\ spc' = "seek"
                     /\ UNCHANGED <<sportResult, sportThrew>>
                ELSE /\ spc' = "done"
                     /\ sportResult' = <<detectedSport(dets)>>
                     /\ sportThrew' = FALSE
    /\ UNCHANGED initFailed

SportInit == sport = "bike" /\ RunIdle /\ SportIdle /\ PureIdle /\ ExtIdle

SportNext ==
    \/ DetectSportType
    \/ SportInitResolved
    \/ SportInitRejected
    \/ SportMetadataLoaded
    \/ SportVideoError
    \/ SportSeeked
    \/ SportFrameDelay
    \/ SportDetectResolved

SportSpec == SportInit /\ [][SportNext]_vars

----------------------------------------------------------------------------
(* Properties of detectSportType *)

SportDone == spc = "done" /\ Len(sresolved) = framesToCheck

\* The frame showing name gives a pose with score above 0.3 that classifySport
\* classifies.
SportUsable(name) ==
    /\ name # "throws"
    /\ SamplePose(name) # <<>>
    /\ SamplePose(name)[1].score > 30
    /\ classifySport(SamplePose(name)) # <<>>

\* The classifications of the frames seen so far, in frame order.
Classifications ==
    LET usable == Filter(sresolved, SportUsable)
    IN  Map(usable, LAMBDA name : classifySport(SamplePose(name))[1])

Votes(sp) == Len(Filter(Classifications, LAMBDA d : d = sp))

Tied == Votes("cycling") = Votes("running") /\ Votes("cycling") > 0

\* C8 as stated: the sport with more classifications is returned, and on
\* equal counts the sport that was classified first.
C8_TieToFirst ==
    SportDone =>
        /\ Votes("cycling") > Votes("running") => sportResult = <<"cycling">>
        /\ Votes("running") > Votes("cycling") => sportResult = <<"running">>
        /\ Tied => sportResult = <<Classifications[1]>>

\* C8, amended: the sport with more classifications is returned, and on
\* equal counts the sport whose first classification came later (its key is
\* iterated last).
C8_TieToLast ==
    SportDone =>
        /\ Votes("cycling") > Votes("running") => sportResult = <<"cycling">>
        /\ Votes("running") > Votes("cycling") => sportResult = <<"running">>
        /\ Tied => /\ sportResult # <<Classifications[1]>>
                   /\ sportResult[1] \in {"cycling", "running"}

\* Two frames classified as running, then two as cycling.
C8_Witness ==
    /\ SportDone
    /\ Classifications = <<"running", "running", "cycling", "cycling">>
    /\ sportResult = <<"cycling">>

\* C9: detectSportType never throws; it resolves with 'unknown' when the
\* detector failed to initialize or no frame gave a pose with score above
\* 0.3 and a classification, and with 'cycling' or 'running' otherwise.
C9_UnknownOrSport ==
    /\ ~sportThrew
    /\ spc = "done" =>
         /\ sportResult # <<>>
         /\ (initFailed \/ \A k \in 1..Len(sresolved) : ~SportUsable(sresolved[k]))
               => sportResult = <<"unknown">>
         /\ (~initFailed /\ \E k \in 1..Len(sresolved) : SportUsable(sresolved[k]))
               => sportResult[1] \in {"cycling", "running"}
    /\ spc # "done" => sportResult = <<>>

\* All five frames were sampled, one showed a runner with pose score exactly
\* 0.3, none was usable, and the result is 'unknown'.
C9_Witness ==
    /\ SportDone
    /\ \E k \in 1..framesToCheck : sresolved[k] = "faint"
    /\ \E k \in 1..framesToCheck : sresolved[k] = "unclear"
    /\ \A k \in 1..framesToCheck : ~SportUsable(sresolved[k])
    /\ sportResult = <<"unknown">>

----------------------------------------------------------------------------
(* The classifier, the analyzers and the enhancers applied to one pose *)

\* Scores of a required keypoint: not found, 0.1, 0.2, 0.9
ScoreChoices == {<<>>, <<10>>, <<20>>, <<90>>}

KneeYs     == {<<180, 185>>, <<200, 205>>, <<200, 240>>, <<200, 330>>,
               <<260, 205>>, <<260, 240>>, <<260, 330>>}
AnkleYs    == {<<>>, <<230, 235>>, <<350, 390>>, <<350, 440>>}
Shoulders  == {<<>>, <<100, 50>>, <<40, 145>>, <<160, 50>>, <<180, 50>>, <<100, 200>>}

\* Poses handed to classifySport: null, a pose without keypoints, every
\* geometry with confident keypoints, and every combination of hip and knee
\* scores for an upright and a seated geometry.
SportPoses ==
    {<<>>, <<[score |-> 90, keypoints |-> <<>>]>>}
    \cup {<<MkSportPose(90, BothScores(90), BothScores(90), k, a, sh)>> :
            k \in KneeYs, a \in AnkleYs, sh \in Shoulders}
    \cup {<<MkSportPose(90, hs, ks, k, <<>>, <<>>)>> :
            hs \in [{"left", "right"} -> ScoreChoices],
            ks \in [{"left", "right"} -> ScoreChoices],
            k \in {<<200, 330>>, <<200, 205>>}}

\* A pose for the analyzers: every keypoint at confidence conf, the knee and
\* elbow angles and the body lean as given (tenths of a degree).
MkFitPose(conf, knee, elbow, lean) ==
    [score |-> 90, hasKeypoints |-> TRUE, kp |-> KpAll(conf),
     ang |-> [sd \in Sides |-> [j \in Joints |->
                CASE j = "knee" -> knee [] j = "elbow" -> elbow
                  [] j = "hip" -> 600 [] OTHER -> 400]],
     bodyLean |-> lean, footStrikeOffset |-> 10]

\* A pose whose keypoint confidences are given per side and part (Undefined
\* for a keypoint that is not found) and whose angles differ between the
\* sides: left knee 150, hip 60, back 40, elbow 150 degrees, right 5 more.
\* { score: 0.9 }: a pose without a keypoints collection
NoKeypointsPose == [MkFitPose(90, 1500, 1500, 80) EXCEPT !.hasKeypoints = FALSE]

\* { keypoints: [], score: 0 }
EmptyPose == [MkFitPose(Undefined, 1500, 1500, 80) EXCEPT !.score = 0]

\* A pose with all keypoints confident and an extended hip (165 degrees) on
\* both sides.
MkRunnerPose(knee, elbow, lean) ==
    [MkFitPose(90, knee, elbow, lean) EXCEPT
        !.ang = [sd \in Sides |-> [j \in Joints |-> IF j = "hip" THEN 1650 ELSE @[sd][j]]]]

MkSidedPose(kp) ==
    [score |-> 90, hasKeypoints |-> TRUE, kp |-> kp,
     ang |-> [sd \in Sides |-> [j \in Joints |->
                (CASE j = "knee" -> 1500 [] j = "elbow" -> 1500
                   [] j = "hip" -> 600 [] OTHER -> 400)
                + (IF sd = "right" THEN 50 ELSE 0)]],
     bodyLean |-> 80, footStrikeOffset |-> 10]

\* Every keypoint at 0.9 except the two knees.
KneeConfidences(l, r) ==
    [sd \in Sides |-> [q \in Parts |->
        IF q = "knee" THEN (IF sd = "left" THEN l ELSE r) ELSE 90]]

\* The left side at 0.9 except its knee, which is not found; the right side
\* as given.
RightConfidences(c) ==
    [sd \in Sides |-> [q \in Parts |->
        IF sd = "right" THEN c[q] ELSE IF q = "knee" THEN Undefined ELSE 90]]

\* Elbows and wrists at 0.9, the leg and trunk keypoints of both sides as given.
LegConfidences(c) ==
    [sd \in Sides |-> [q \in Parts |->
        IF q \in {"elbow", "wrist"} THEN 90 ELSE c[sd][q]]]

FitPoses ==
    {<<>>, <<NoKeypointsPose>>, <<EmptyPose>>}
    \cup {<<MkRunnerPose(knee, elbow, lean)>> :
            knee \in {1200, 1650}, elbow \in {1000, 1300}, lean \in {20, 80}}
    \cup {<<MkFitPose(conf, knee, elbow, lean)>> :
            conf \in {30, 90},
            knee \in {850, 1200, 1500, 1650, 1704, 1750},
            elbow \in {1300, 1500, 1750},
            lean \in {20, 80, 140, 200}}
    \cup {<<MkSidedPose(KneeConfidences(l, r))>> :
            l \in {Undefined, 0, 30, 50, 90}, r \in {Undefined, 0, 30, 50, 90}}
    \cup {<<MkSidedPose(RightConfidences(c))>> : c \in [Parts -> {Undefined, 30, 90}]}
    \cup {<<MkSidedPose(LegConfidences(c))>> :
            c \in [Sides -> [{"shoulder", "hip", "knee", "ankle"} -> {30, 90}]]}

\* Most frames handed to combineAnalyses at once.
MaxFrames == 3

\* A frame's analysis with the given knee and hip angles (Undefined: absent).
MkAnalysis(knee, hip, overall) ==
    [angles |-> [NoAngles EXCEPT !["knee"] = knee, !["hip"] = hip],
     recommendations |-> IF hip = Undefined THEN <<>>
                         ELSE <<Rec("success", "Hip Angle", "Good hip angle for power transfer", hip)>>,
     overall |-> overall, confidence |-> Undefined,
     sides |-> [left |-> NoSide, right |-> NoSide]]

FrameAnalyses ==
    {MkAnalysis(knee, hip, IF hip = Undefined THEN "good" ELSE "excellent") :
        knee \in {Undefined, 0, 100, 151}, hip \in {Undefined, 60}}

AnalysisLists == UNION {[1..n -> FrameAnalyses] : n \in 1..MaxFrames}

\* How far outside the optimal range the values handed to calculateSeverity go.
MaxOutside == 12

\* Arguments of calculateSeverity: the optimal ranges 140-160, 5-12, 160-180
\* and the empty-width range 150-150, the values around them, and the two
\* thresholds (<<>> when the caller omits them).  An input holds them as the
\* one element of its argument list.
SeverityArgs ==
    {[value |-> v, optimalMin |-> b[1], optimalMax |-> b[2], thresholds |-> t] :
        b \in {<<140, 160>>, <<5, 12>>, <<160, 180>>, <<150, 150>>},
        v \in 0..(180 + MaxOutside),
        t \in {<<>>, <<25, 15>>, <<40, 25>>, <<15, 10>>}}

\* Most recommendations of an analysis handed to an enhancer directly.
MaxRecs == 3

\* Recommendations with and without an angle, for an area of the bike-fit
\* enhancer, one of the running enhancer and one neither recognizes.
InputRecs ==
    {Rec("info", "Knee Angle", "Some advice", angle) : angle \in {Undefined, 100, 137, 150}}
    \cup {Rec("info", "Arm Swing", "Some advice", angle) : angle \in {Undefined, 150}}
    \cup {Rec("info", "General", "Some advice", 100)}

\* null, an analysis without recommendations, and analyses with up to
\* MaxRecs recommendations.
EnhancerInputs ==
    {<<>>, <<[angles |-> NoAngles, overall |-> "good"]>>}
    \cup {<<[angles |-> NoAngles, recommendations |-> recs, overall |-> "good"]>> :
            recs \in UNION {[1..n -> InputRecs] : n \in 0..MaxRecs}}

\* Most frames handed to calculateAsymmetry at once.
MaxSided == 2

\* A frame's analysis with the given per-side knee angles and left hip angle
\* (Undefined: the key is absent from that side).
MkSidedAnalysis(leftKnee, rightKnee, leftHip) ==
    [MkAnalysis(Undefined, Undefined, "good") EXCEPT
        !.sides = [left  |-> [NoSide EXCEPT !["kneeAngle"] = leftKnee, !["hipAngle"] = leftHip],
                   right |-> [NoSide EXCEPT !["kneeAngle"] = rightKnee]]]

SidedAnalyses ==
    {MkSidedAnalysis(leftKnee, rightKnee, leftHip) :
        leftKnee \in {Undefined, 0, 100}, rightKnee \in {Undefined, 0, 100, 110},
        leftHip \in {Undefined, 150}}

SidedLists == UNION {[1..n -> SidedAnalyses] : n \in 0..MaxSided}

\* Most cached frames handed to useFrameRenderer.
MaxCached == 3

\* Calls of handleFrameChange: the number of cached frames, the video's
\* duration and the playback time (in the same unit, 0..duration), what the
\* real-time detection race gives, and the state of the canvas.
RenderCalls ==
    {[length |-> n, duration |-> d, currentTime |-> t, detected |-> det, canvas |-> cv] :
        n \in 0..MaxCached, d \in {2, 3}, t \in 0..3,
        det \in {"usable", "weak", "none", "timeout", "throws"},
        cv \in {"ok", "missing", "drawFails"}}

PureInputs ==
    {[kind |-> "analysis", pose |-> a] : a \in EnhancerInputs}
    \cup {[kind |-> "sport", pose |-> p] : p \in SportPoses}
    \cup {[kind |-> "fit", pose |-> p] : p \in FitPoses}
    \cup {[kind |-> "analyses", pose |-> a] : a \in AnalysisLists}
    \cup {[kind |-> "sided", pose |-> a] : a \in SidedLists}
    \cup {[kind |-> "render", pose |-> <<c>>] : c \in {x \in RenderCalls : x.currentTime <= x.duration}}
    \cup {[kind |-> "severity", pose |-> <<a>>] : a \in
            {x \in SeverityArgs : /\ x.value >= x.optimalMin - MaxOutside
                                  /\ x.value <= x.optimalMax + MaxOutside}}

Output(fn, sportType, a, enhanced) ==
    <<[fn |-> fn, sportType |-> sportType, analysis |-> a, enhanced |-> enhanced]>>

\* classifySport(pose)
CallClassifySport ==
    /\ UNCHANGED <<runVars, sportVars, extVars>>
    /\ fpose.kind = "sport" /\ fout = <<>>
    /\ fout' = Output("classifySport", classifySport(fpose.pose), <<>>, <<>>)
    /\ UNCHANGED fpose

\* enhanceBikeFitRecommendations(analyzeBikeFit(pose))
CallBikeFit ==
    /\ UNCHANGED <<runVars, sportVars, extVars>>
    /\ fpose.kind = "fit" /\ fout = <<>>
    /\ LET a == analyzeBikeFit(fpose.pose)
       IN  fout' = Output("bike", <<>>, a, enhanceBikeFitRecommendations(a))
    /\ UNCHANGED fpose

\* enhanceRunningRecommendations(analyzeRunningForm(pose))
CallRunningForm ==
    /\ UNCHANGED <<runVars, sportVars, extVars>>
    /\ fpose.kind = "fit" /\ fout = <<>>
    /\ LET a == analyzeRunningForm(fpose.pose)
       IN  fout' = Output("running", <<>>, a, enhanceRunningRecommendations(a))
    /\ UNCHANGED fpose

\* combineAnalyses(analyses)
CallCombineAnalyses ==
    /\ UNCHANGED <<runVars, sportVars, extVars>>
    /\ fpose.kind = "analyses" /\ fout = <<>>
    /\ fout' = Output("combineAnalyses", <<>>, <<combineAnalyses(fpose.pose)>>, <<>>)
    /\ UNCHANGED fpose

\* calculateSeverity(value, optimalMin, optimalMax[, criticalThreshold, moderateThreshold])
CallCalculateSeverity ==
    /\ UNCHANGED <<runVars, sportVars, extVars>>
    /\ fpose.kind = "severity" /\ fout = <<>>
    /\ LET a == fpose.pose[1]
       IN  fout' = <<[fn |-> "calculateSeverity",
                      severity |-> IF a.thresholds = <<>>
                                   THEN calculateSeverityDefault(a.value, a.optimalMin, a.optimalMax)
                                   ELSE calculateSeverity(a.value, a.optimalMin, a.optimalMax,
                                                          a.thresholds[1], a.thresholds[2]),
                      rangeDivisions |-> rangeDivisions(a.value, a.optimalMin, a.optimalMax)]>>
    /\ UNCHANGED fpose

\* One of the four enhancers applied to an analysis | null
CallEnhancer ==
    /\ UNCHANGED <<runVars, sportVars, extVars>>
    /\ fpose.kind = "analysis" /\ fout = <<>>
    /\ \/ fout' = Output("enhanceBikeFitRecommendations", <<>>, fpose.pose,
                          enhanceBikeFitRecommendations(fpose.pose))
       \/ fout' = Output("enhanceRunningRecommendations", <<>>, fpose.pose,
                          enhanceRunningRecommendations(fpose.pose))
       \/ fout' = Output("enhanceBikeFitRecommendations.js", <<>>, fpose.pose,
                          enhanceBikeFitRecommendationsJs(fpose.pose))
       \/ fout' = Output("enhanceRunningRecommendations.js", <<>>, fpose.pose,
                          enhanceRunningRecommendationsJs(fpose.pose))
    /\ UNCHANGED fpose

----------------------------------------------------------------------------
(* detailedMetrics.js: calculateDetailedMetrics and calculateConsistency.  *)
(* With n values of sum S and sum of squares Q, write D = n*Q - S*S; then  *)
(* the standard deviation is sqrt(D)/n and the coefficient of variation    *)
(* (stdDev / avg) * 100 is 100*sqrt(D)/S.  Comparisons with sqrt(D) are    *)
(* made on squares; stdDev is kept in tenths.                              *)

RECURSIVE MathMin(_)
MathMin(s) == IF Len(s) = 1 THEN s[1]
              ELSE LET m == MathMin(Tail(s)) IN IF s[1] <= m THEN s[1] ELSE m

RECURSIVE MathMax(_)
MathMax(s) == IF Len(s) = 1 THEN s[1] ELSE Max(s[1], MathMax(Tail(s)))

SumSquares(s) == SumSeq([n \in 1..Len(s) |-> s[n] * s[n]])

\* n*Q - S*S: n*n times the variance of the values
Spread(values) == Len(values) * SumSquares(values) - SumSeq(values) * SumSeq(values)

\* floor(a*a / (w*w)) for a >= 0 and w > 0, computed without forming a*a
SquareDivFloor(a, w) ==
    LET q == a \div w
        r == a % w
    IN  q * q + (2 * q * r * w + r * r) \div (w * w)

\* ceil(a*a / (w*w)) for a >= 0 and w > 0
SquareDivCeil(a, w) ==
    LET q == a \div w
        r == a % w
    IN  q * q + (2 * q * r * w + r * r + w * w - 1) \div (w * w)

\* a < w * sqrt(D), for w > 0 and D >= 0
RootAbove(a, w, D) == a < 0 \/ SquareDivFloor(a, w) < D

\* w * sqrt(D) < a, for w > 0 and D >= 0
RootBelow(a, w, D) == a > 0 /\ D < SquareDivCeil(a, w)

\* Math.round(stdDev * 10): the t with t - 1/2 <= 10*sqrt(D)/n < t + 1/2
stdDevTenths(values) ==
    LET n == Len(values)
        D == Spread(values)
    IN  CHOOSE t \in 0..(5 * (MathMax(values) - MathMin(values)) + 1) :
            /\ ~RootBelow((2 * t - 1) * n, 20, D)
            /\ RootBelow((2 * t + 1) * n, 20, D)

\* Math.max(0, Math.round(A - B * CV)) where CV = 100*sqrt(D)/S and S > 0:
\* the c with c - 1/2 <= A - B*CV < c + 1/2, or 0 when that c is negative
roundScore(A, B, D, S) ==
    LET fits(c) == /\ RootAbove((2 * (A - c) - 1) * S, 200 * B, D)
                   /\ ~RootAbove((2 * (A - c) + 1) * S, 200 * B, D)
    IN  IF \E c \in 0..100 : fits(c) THEN CHOOSE c \in 0..100 : fits(c) ELSE 0

\* calculateConsistency(stdDev, avg) for the stdDev and avg of values
calculateConsistency(values) ==
    LET D == Spread(values)
        S == SumSeq(values)
    IN  IF S = 0 THEN 0
        ELSE IF 400 * D < S * S THEN roundScore(100, 2, D, S)
        ELSE IF 100 * D < S * S THEN roundScore(105, 3, D, S)
        ELSE IF 400 * D < 9 * S * S THEN roundScore(105, 3, D, S)
        ELSE roundScore(90, 2, D, S)

\* calculateDetailedMetrics(allAnalyses): null, or per angle key the metric
\* record, absent (<<>>) for a key no frame has a value for
calculateDetailedMetrics(frames) ==
    IF frames = <<>> THEN <<>>
    ELSE <<[k \in AngleKeys |->
             LET values == PresentValues(frames, k)
             IN  IF values = <<>> THEN <<>>
                 ELSE <<[min |-> MathMin(values),
                         max |-> MathMax(values),
                         avg |-> RoundDiv(SumSeq(values), Len(values)),
                         stdDev |-> stdDevTenths(values),
                         range |-> MathMax(values) - MathMin(values),
                         consistency |-> calculateConsistency(values),
                         values |-> values]>>]>>

\* calculateDetailedMetrics(allAnalyses)
CallCalculateDetailedMetrics ==
    /\ UNCHANGED <<runVars, sportVars, extVars>>
    /\ fpose.kind = "analyses" /\ fout = <<>>
    /\ fout' = <<[fn |-> "calculateDetailedMetrics",
                  metrics |-> calculateDetailedMetrics(fpose.pose)]>>
    /\ UNCHANGED fpose

----------------------------------------------------------------------------
(* detailedMetrics.js: calculateAsymmetry.  With the left values of a key  *)
(* summing to SL over nL frames and the right values to SR over nR frames, *)
(* difference is |SL*nR - SR*nL| / (nL*nR) and percentDiff is              *)
(* 200 * |SL*nR - SR*nL| / (SL*nR + SR*nL); percentDiff is kept in tenths. *)
(* Every analysis of the model has both sides; a key that is Undefined on  *)
(* a side is one Object.entries does not yield or the value test rejects.  *)

\* 0 / 0
NaN == -2

\* leftAngles[key] / rightAngles[key]: the values pushed for key on side,
\* in frame order (<<>>: the key was never created)
sideAngles(frames, side, key) ==
    LET vals == Map(frames, LAMBDA a : a.sides[side][key])
    IN  Filter(vals, LAMBDA v : v # Undefined)

\* percentDiff < 5 ? 'balanced' : percentDiff < 10 ? 'minor' : 'significant'
\* where percentDiff = 200 * N / M, and NaN when M = 0
asymmetryStatus(N, M) ==
    IF M = 0 THEN "significant"
    ELSE IF 40 * N < M THEN "balanced"
    ELSE IF 20 * N < M THEN "minor"
    ELSE "significant"

asymmetryEntry(leftVals, rightVals) ==
    LET nL == Len(leftVals)
        nR == Len(rightVals)
        N == Abs(SumSeq(leftVals) * nR - SumSeq(rightVals) * nL)
        M == SumSeq(leftVals) * nR + SumSeq(rightVals) * nL
    IN  [left |-> RoundDiv(SumSeq(leftVals), nL),
         right |-> RoundDiv(SumSeq(rightVals), nR),
         difference |-> RoundDiv(N, nL * nR),
         percentDiff |-> IF M = 0 THEN NaN ELSE RoundDiv(2000 * N, M),
         status |-> asymmetryStatus(N, M)]

\* Variant: a key gets an entry only when one frame has it on both sides.
calculateAsymmetryPaired(frames) ==
    LET paired(key) == \E n \in 1..Len(frames) :
                          /\ frames[n].sides["left"][key] # Undefined
                          /\ frames[n].sides["right"][key] # Undefined
        asymmetry == [key \in SideKeys |->
            IF paired(key)
            THEN <<asymmetryEntry(sideAngles(frames, "left", key),
                                  sideAngles(frames, "right", key))>>
            ELSE <<>>]
    IN  IF \E key \in SideKeys : asymmetry[key] # <<>> THEN <<asymmetry>> ELSE <<>>

\* calculateAsymmetry(allAnalyses): null (<<>>), or per key the entry,
\* absent (<<>>) for a key without values on both sides
calculateAsymmetry(frames) ==
    LET asymmetry == [key \in SideKeys |->
            IF sideAngles(frames, "left", key) # <<>> /\ sideAngles(frames, "right", key) # <<>>
            THEN <<asymmetryEntry(sideAngles(frames, "left", key),
                                  sideAngles(frames, "right", key))>>
            ELSE <<>>]
    IN  IF frames = <<>> THEN <<>>
        ELSE IF \E key \in SideKeys : asymmetry[key] # <<>> THEN <<asymmetry>>
        ELSE <<>>

\* calculateAsymmetry(allAnalyses)
CallCalculateAsymmetry ==
    /\ UNCHANGED <<runVars, sportVars, extVars>>
    /\ fpose.kind = "sided" /\ fout = <<>>
    /\ fout' = <<[fn |-> "calculateAsymmetry", asymmetry |-> calculateAsymmetry(fpose.pose)]>>
    /\ UNCHANGED fpose

----------------------------------------------------------------------------
(* useVideoAnalysis.ts: useFrameRenderer.handleFrameChange.  Indices are   *)
(* 0-based as in the code; allFramePoses[k] is undefined unless            *)
(* 0 <= k < length.                                                        *)

\* Math.floor((currentTime / video.duration) * allFramePoses.length)
frameIndex(c) == (c.currentTime * c.length) \div c.duration

\* Math.min(frameIndex + 1, allFramePoses.length - 1)
nextFrameIndex(c) ==
    IF frameIndex(c) + 1 <= c.length - 1 THEN frameIndex(c) + 1 ELSE c.length - 1

\* allFramePoses[k] is truthy
cachedAt(c, k) == 0 <= k /\ k < c.length

\* Where the pose of the overlay comes from: the real-time detection, the
\* cached frames, or nowhere (nothing is drawn over the video frame).
overlaySource(c) ==
    IF c.canvas # "ok" \/ c.length = 0 THEN "none"
    ELSE IF c.detected = "usable" THEN "realtime"
    ELSE IF cachedAt(c, frameIndex(c)) /\ cachedAt(c, nextFrameIndex(c)) THEN "cached"
    ELSE "none"

\* handleFrameChange(currentTime, showSkeleton, showAngles)
CallHandleFrameChange ==
    /\ UNCHANGED <<runVars, sportVars, extVars>>
    /\ fpose.kind = "render" /\ fout = <<>>
    /\ LET c == fpose.pose[1]
       IN  fout' = <<[fn |-> "handleFrameChange",
                      frameIndex |-> frameIndex(c),
                      nextFrameIndex |-> nextFrameIndex(c),
                      overlay |-> overlaySource(c)]>>
    /\ UNCHANGED fpose

PureInit ==
    /\ sport = "bike" /\ RunIdle /\ SportIdle /\ ExtIdle
    /\ fpose \in PureInputs /\ fout = <<>>

PureNext ==
    \/ CallClassifySport
    \/ CallBikeFit
    \/ CallRunningForm
    \/ CallCombineAnalyses
    \/ CallCalculateSeverity
    \/ CallCalculateDetailedMetrics
    \/ CallCalculateAsymmetry
    \/ CallHandleFrameChange
    \/ CallEnhancer

PureSpec == PureInit /\ [][PureNext]_vars

----------------------------------------------------------------------------
(* Properties of the classifier, the analyzers and the enhancers *)

Called(fn) == fout # <<>> /\ fout[1].fn = fn

\* The severity the enhanced recommendations of area have, all equal to sev.
GradedAs(area, lo, hi, crit, mod) ==
    \A n \in 1..Len(fout[1].enhanced) :
        LET rec == fout[1].enhanced[n]
        IN  rec.area = area =>
                rec.severity = calculateSeverity(rec.angle, lo, hi, crit, mod)

\* C6: the knee and elbow recommendations analyzeBikeFit emits ("Saddle
\* Height", "Elbow Position") are graded by enhanceBikeFitRecommendations
\* with the knee bounds (140, 160, 25, 15) and the elbow bounds (140, 170,
\* 25, 15), and the body-lean recommendation analyzeRunningForm emits
\* ("Posture") by enhanceRunningRecommendations with (5, 12, 40, 25).
C6_AnalyzerRecsGraded ==
    /\ Called("bike") => /\ GradedAs("Saddle Height", 140, 160, 25, 15)
                         /\ GradedAs("Elbow Position", 140, 170, 25, 15)
    /\ Called("running") => GradedAs("Posture", 5, 12, 40, 25)

\* keypoint name of the pose is present with a score above 0.2
PresentAbove(p, name) ==
    /\ p # <<>> /\ p[1].keypoints # <<>>
    /\ p[1].keypoints[1][name] # <<>>
    /\ p[1].keypoints[1][name][1].score # Undefined
    /\ p[1].keypoints[1][name][1].score > 20

\* C10: classifySport returns null unless both hips and both knees are
\* present with a score strictly above 0.2.
C10_RequiredAboveThreshold ==
    (Called("classifySport") /\ fout[1].sportType # <<>>) =>
        \A name \in {"left_hip", "right_hip", "left_knee", "right_knee"} :
            PresentAbove(fpose.pose, name)

\* The pose passed the keypoint gate of classifySport.
GatePassed(p) ==
    /\ p # <<>> /\ p[1].keypoints # <<>>
    /\ \A name \in {"left_hip", "right_hip", "left_knee", "right_knee"} :
          ~requiredMissing(p[1].keypoints[1][name])

\* The two final scores of a pose that passed the gate.
FinalScores == sportScores(fpose.pose[1].keypoints[1])

KneeScore(side) == Max(fpose.pose[1].kp[side]["knee"], 0)

\* Every angle analyzeBikeFit reported, and at least one, is the angle of the
\* given side.
MeasuredFrom(side) ==
    LET reported == {j \in Joints : fout[1].analysis[1].angles[j] # Undefined}
    IN  /\ reported # {}
        /\ \A j \in reported :
              fout[1].analysis[1].angles[j] = Round10(fpose.pose[1].ang[side][j])

\* analyzeBikeFit returned an analysis with at least one angle for a pose
\* whose two sides have different angles.
SideVisible ==
    /\ Called("bike") /\ fout[1].analysis # <<>>
    /\ fpose.pose[1].ang["left"] # fpose.pose[1].ang["right"]
    /\ \E j \in Joints : fout[1].analysis[1].angles[j] # Undefined

\* C12 as stated: the right side is measured only when the right knee's
\* confidence is strictly higher, and the left side on equal confidences.
C12_TieToLeft ==
    SideVisible =>
        /\ KneeScore("right") > KneeScore("left") => MeasuredFrom("right")
        /\ KneeScore("right") <= KneeScore("left") => MeasuredFrom("left")

\* C12, amended: the left side is measured only when the left knee's
\* confidence is strictly higher than the right knee's; on equal confidences
\* (including both knees missing) the right side is measured.
C12_TieToRight ==
    SideVisible =>
        /\ KneeScore("left") > KneeScore("right") => MeasuredFrom("left")
        /\ KneeScore("left") <= KneeScore("right") => MeasuredFrom("right")

\* Both knees at 0.9: the knee angle reported is the right one (155 degrees).
C12_Witness ==
    /\ SideVisible
    /\ fpose.pose[1].kp["left"]["knee"] = 90
    /\ fpose.pose[1].kp["right"]["knee"] = 90
    /\ fout[1].analysis[1].angles["knee"] = 155

\* The input pose has the keypoint with a confidence above 0.3.
Above03(side, part) ==
    /\ fpose.pose[1].kp[side][part] # Undefined
    /\ fpose.pose[1].kp[side][part] > 30

\* C13: in the result of analyzeRunningForm, a side's kneeAngle is present
\* exactly when that side's hip, knee and ankle have confidence above 0.3,
\* and a side's hipAngle exactly when that side's shoulder, hip and knee
\* have, whatever the other keypoints are.
C13_SideGatedByOwnTriple ==
    (Called("running") /\ fout[1].analysis # <<>>) =>
        \A side \in Sides :
            LET result == fout[1].analysis[1].sides[side]
            IN  /\ (result["kneeAngle"] # Undefined) <=>
                      (Above03(side, "hip") /\ Above03(side, "knee") /\ Above03(side, "ankle"))
                /\ (result["hipAngle"] # Undefined) <=>
                      (Above03(side, "shoulder") /\ Above03(side, "hip") /\ Above03(side, "knee"))

\* The keypoints each bike-fit angle is computed from.
RequiredParts(j) ==
    CASE j = "knee"  -> {"hip", "knee", "ankle"}
      [] j = "hip"   -> {"shoulder", "hip", "knee"}
      [] j = "back"  -> {"shoulder", "hip"}
      [] j = "elbow" -> {"shoulder", "elbow", "wrist"}

\* The angle a bike-fit recommendation area is about.
JointOfArea(area) ==
    CASE area = "Saddle Height"  -> "knee"
      [] area = "Hip Angle"      -> "hip"
      [] area = "Back Angle"     -> "back"
      [] area = "Elbow Position" -> "elbow"

\* The side analyzeBikeFit takes its keypoints from.
ChosenSide == IF KneeScore("left") > KneeScore("right") THEN "left" ELSE "right"

\* C14: analyzeBikeFit returns a result for every pose with keypoints, and
\* reports an angle, or a recommendation for it, only if every keypoint the
\* angle requires on the chosen side is present with confidence above 0.3.
C14_AnglesNeedConfidentKeypoints ==
    (Called("bike") /\ fpose.pose # <<>> /\ fpose.pose[1].hasKeypoints) =>
        /\ fout[1].analysis # <<>>
        /\ \A j \in Joints :
              fout[1].analysis[1].angles[j] # Undefined =>
                  \A part \in RequiredParts(j) : Above03(ChosenSide, part)
        /\ \A n \in 1..Len(fout[1].analysis[1].recommendations) :
              LET rec == fout[1].analysis[1].recommendations[n]
              IN  /\ rec.angle # Undefined
                  /\ rec.angle = fout[1].analysis[1].angles[JointOfArea(rec.area)]
                  /\ \A part \in RequiredParts(JointOfArea(rec.area)) :
                        Above03(ChosenSide, part)

\* The right ankle is at exactly 0.3 and the rest of the right side at 0.9:
\* no knee angle and no saddle recommendation, but the hip angle is reported.
C14_Witness ==
    /\ Called("bike") /\ fpose.pose # <<>>
    /\ ChosenSide = "right"
    /\ fpose.pose[1].kp["right"]["ankle"] = 30
    /\ \A part \in Parts \ {"ankle"} : fpose.pose[1].kp["right"][part] = 90
    /\ fout[1].analysis[1].angles["knee"] = Undefined
    /\ fout[1].analysis[1].angles["hip"] = 65
    /\ Len(fout[1].analysis[1].recommendations) = 3

\* The frames of the input list that have angle key k, and the sum of their
\* values.
FramesWith(k) == {n \in 1..Len(fpose.pose) : fpose.pose[n].angles[k] # Undefined}

SumOver(k) ==
    SumSeq([n \in 1..Len(fpose.pose) |->
              IF n \in FramesWith(k) THEN fpose.pose[n].angles[k] ELSE 0])

\* C15: combineAnalyses returns the last input analysis with only angles
\* replaced; a key present in no frame is absent from the result, and any
\* other key holds the mean over exactly the frames that have it, rounded to
\* the nearest integer (halves up).
C15_PerKeyMean ==
    Called("combineAnalyses") =>
        LET result == fout[1].analysis[1]
            last == fpose.pose[Len(fpose.pose)]
        IN  /\ result = [last EXCEPT !.angles = result.angles]
            /\ \A k \in AngleKeys :
                  LET count == Cardinality(FramesWith(k))
                      mean == result.angles[k]
                  IN  IF count = 0 THEN mean = Undefined
                      ELSE /\ mean # Undefined
                           /\ count * (2 * mean - 1) <= 2 * SumOver(k)
                           /\ 2 * SumOver(k) < count * (2 * mean + 1)

\* Three frames of which two have a knee angle (100 and 151): the result
\* holds 126 and otherwise the third frame, which has no knee angle.
C15_Witness ==
    /\ Called("combineAnalyses")
    /\ Len(fpose.pose) = MaxFrames
    /\ fpose.pose[1].angles["knee"] = 100
    /\ fpose.pose[2].angles["knee"] = 151
    /\ fpose.pose[MaxFrames].angles["knee"] = Undefined
    /\ fpose.pose[MaxFrames].overall = "excellent"
    /\ fout[1].analysis[1].angles["knee"] = 126
    /\ fout[1].analysis[1].overall = "excellent"

\* C16: when optimalMin equals optimalMax, calculateSeverity never evaluates
\* the division by the width of the optimal range, whatever the value is.
C16_ZeroRangeNeverDivides ==
    (Called("calculateSeverity") /\ fpose.pose[1].optimalMin = fpose.pose[1].optimalMax) =>
        fout[1].rangeDivisions = <<>>

\* C17: calculateSeverity returns minor for every value inside [optimalMin,
\* optimalMax]; for a value outside a range of positive width, with
\* deviation = distance to the nearest bound / width * 100, it returns
\* critical if deviation >= criticalPct, else moderate if deviation >=
\* moderatePct, else minor; the percentages default to 20 and 10.
C17_SeverityByDeviation ==
    Called("calculateSeverity") =>
        LET a == fpose.pose[1]
            criticalPct == IF a.thresholds = <<>> THEN 20 ELSE a.thresholds[1]
            moderatePct == IF a.thresholds = <<>> THEN 10 ELSE a.thresholds[2]
            width == a.optimalMax - a.optimalMin
            distance == IF a.value < a.optimalMin THEN a.optimalMin - a.value
                        ELSE a.value - a.optimalMax
            inside == a.value >= a.optimalMin /\ a.value <= a.optimalMax
            \* deviation >= pct, both sides multiplied by width
            AtLeast(pct) == distance * 100 >= pct * width
        IN  /\ inside => fout[1].severity = "minor"
            /\ (~inside /\ width > 0) =>
                  fout[1].severity =
                      IF AtLeast(criticalPct) THEN "critical"
                      ELSE IF AtLeast(moderatePct) THEN "moderate"
                      ELSE "minor"

\* calculateSeverity(163, 140, 160) with the default percentages: the
\* deviation is 15 and the result is moderate.
C17_Witness ==
    /\ Called("calculateSeverity")
    /\ fpose.pose = <<[value |-> 163, optimalMin |-> 140, optimalMax |-> 160, thresholds |-> <<>>]>>
    /\ fout[1].severity = "moderate"

EnhancerNames ==
    {"enhanceBikeFitRecommendations", "enhanceRunningRecommendations",
     "enhanceBikeFitRecommendations.js", "enhanceRunningRecommendations.js"}

EnhancerCalled == fout # <<>> /\ fout[1].fn \in EnhancerNames

\* The areas the called enhancer has a block for.
RecognizedAreas ==
    IF fout[1].fn \in {"enhanceBikeFitRecommendations", "enhanceBikeFitRecommendations.js"}
    THEN {"Knee Angle", "Hip Angle", "Elbow Angle", "Back Angle"}
    ELSE {"Body Lean", "Knee Lift", "Hip Extension", "Arm Swing"}

\* C18: the list an enhancer returns is ordered by non-increasing
\* priorityScore, where critical scores 3, moderate 2 and minor 1; it has one
\* entry per recommendation, and it is empty for null and for an analysis
\* without recommendations.
C18_SortedByPriority ==
    EnhancerCalled =>
        LET out == fout[1].enhanced
            a == fpose.pose
        IN  /\ \A n \in 1..(Len(out) - 1) : out[n].priorityScore >= out[n + 1].priorityScore
            /\ \A n \in 1..Len(out) :
                  out[n].priorityScore =
                      CASE out[n].severity = "critical" -> 3
                        [] out[n].severity = "moderate" -> 2
                        [] out[n].severity = "minor"    -> 1
            /\ (a = <<>> \/ "recommendations" \notin DOMAIN a[1]) => out = <<>>
            /\ (a # <<>> /\ "recommendations" \in DOMAIN a[1]) =>
                  Len(out) = Len(a[1].recommendations)

\* Knee recommendations at 150, 100 and 137 degrees, in that order, come out
\* of the bike-fit enhancer as critical, moderate, minor.
C18_Witness ==
    /\ Called("enhanceBikeFitRecommendations")
    /\ fpose.pose # <<>> /\ "recommendations" \in DOMAIN fpose.pose[1]
    /\ Len(fpose.pose[1].recommendations) = 3
    /\ \A n \in 1..3 : fpose.pose[1].recommendations[n].area = "Knee Angle"
    /\ fpose.pose[1].recommendations[1].angle = 150
    /\ fpose.pose[1].recommendations[2].angle = 100
    /\ fpose.pose[1].recommendations[3].angle = 137
    /\ fout[1].enhanced[1].severity = "critical" /\ fout[1].enhanced[1].angle = 100
    /\ fout[1].enhanced[2].severity = "moderate" /\ fout[1].enhanced[2].angle = 137
    /\ fout[1].enhanced[3].severity = "minor" /\ fout[1].enhanced[3].angle = 150

\* C19: in the TypeScript and in the JavaScript enhancers alike, a
\* recommendation without an angle, or with an area the enhancer has no block
\* for, comes out with severity 'minor' and no drills.
C19_UngradedIsMinor ==
    EnhancerCalled =>
        \A n \in 1..Len(fout[1].enhanced) :
            LET rec == fout[1].enhanced[n]
            IN  (rec.angle = Undefined \/ rec.area \notin RecognizedAreas) =>
                    (rec.severity = "minor" /\ rec.drills = <<>>)

\* The JavaScript bike-fit enhancer was given a knee recommendation without
\* an angle and an arm-swing recommendation at 150 degrees; both come out
\* minor and without drills.
C19_Witness ==
    /\ Called("enhanceBikeFitRecommendations.js")
    /\ Len(fout[1].enhanced) = 2
    /\ \E n \in 1..2 : /\ fout[1].enhanced[n].area = "Knee Angle"
                       /\ fout[1].enhanced[n].angle = Undefined
    /\ \E n \in 1..2 : /\ fout[1].enhanced[n].area = "Arm Swing"
                       /\ fout[1].enhanced[n].angle = 150
    /\ \A n \in 1..2 : fout[1].enhanced[n].severity = "minor" /\ fout[1].enhanced[n].drills = <<>>

----------------------------------------------------------------------------
(* Properties of calculateDetailedMetrics *)

\* The metric records calculateDetailedMetrics reported, by angle key.
ReportedMetrics == {k \in AngleKeys : fout[1].metrics[1][k] # <<>>}

\* C20: for a single-frame input to calculateDetailedMetrics, every reported
\* angle metric has stdDev = 0 and consistency = 100.
C20_SingleFrameSteady ==
    (Called("calculateDetailedMetrics") /\ Len(fpose.pose) = 1) =>
        \A k \in ReportedMetrics :
            LET m == fout[1].metrics[1][k][1]
            IN  m.stdDev = 0 /\ m.consistency = 100

----------------------------------------------------------------------------
(* Properties of calculateAsymmetry *)

\* Some frame of the input list has a value for key k on side.
HasSideValue(side, k) ==
    \E n \in 1..Len(fpose.pose) : fpose.pose[n].sides[side][k] # Undefined

BothSided == {k \in SideKeys : HasSideValue("left", k) /\ HasSideValue("right", k)}

\* C21: calculateAsymmetry returns an entry for key k exactly when some frame
\* has a left value for k and some (possibly different) frame has a right
\* value for k, and returns null exactly when no key has values on both sides.
C21_EntryIffBothSides ==
    Called("calculateAsymmetry") =>
        /\ fout[1].asymmetry = <<>> <=> BothSided = {}
        /\ fout[1].asymmetry # <<>> =>
              \A k \in SideKeys : fout[1].asymmetry[1][k] # <<>> <=> k \in BothSided

\* Two frames, the first with only a left knee angle and the second with only
\* a right knee angle: the result has a knee entry, and none for the hip
\* angle that only the left side has.
C21_Witness ==
    /\ Called("calculateAsymmetry")
    /\ Len(fpose.pose) = MaxSided
    /\ fpose.pose[1].sides["left"]["kneeAngle"] = 100
    /\ fpose.pose[1].sides["right"]["kneeAngle"] = Undefined
    /\ fpose.pose[1].sides["left"]["hipAngle"] = 150
    /\ fpose.pose[2].sides["left"]["kneeAngle"] = Undefined
    /\ fpose.pose[2].sides["right"]["kneeAngle"] = 110
    /\ fout[1].asymmetry # <<>>
    /\ fout[1].asymmetry[1]["kneeAngle"] # <<>>
    /\ fout[1].asymmetry[1]["kneeAngle"][1].status = "minor"
    /\ fout[1].asymmetry[1]["hipAngle"] = <<>>

\* The left values and the right values of key k in the input list have the
\* same average.
EqualAverages(k) ==
    LET leftVals == sideAngles(fpose.pose, "left", k)
        rightVals == sideAngles(fpose.pose, "right", k)
    IN  SumSeq(leftVals) * Len(rightVals) = SumSeq(rightVals) * Len(leftVals)

\* C28: for any key with values on both sides whose left average equals its
\* right average, calculateAsymmetry reports status 'balanced', for all
\* angle values including 0.
C28_EqualAveragesBalanced ==
    Called("calculateAsymmetry") =>
        \A k \in BothSided :
            EqualAverages(k) => fout[1].asymmetry[1][k][1].status = "balanced"

----------------------------------------------------------------------------
(* Properties of the analyzers' results *)

\* One of the two analyzers was applied to the input pose.
AnalyzerCalled == Called("bike") \/ Called("running")

\* The input pose is null or has no keypoints collection.
PoseMissing == fpose.pose = <<>> \/ ~fpose.pose[1].hasKeypoints

\* The input pose's keypoint list holds no keypoint.
KeypointsEmpty ==
    \A sd \in Sides, q \in Parts : fpose.pose[1].kp[sd][q] = Undefined

\* C22: analyzeBikeFit and analyzeRunningForm return null exactly when the
\* pose is missing or has no keypoints collection; for a pose with an empty
\* keypoint list they return a non-null analysis with no angles and no
\* recommendations.
C22_NullOnlyForMissingPose ==
    AnalyzerCalled =>
        /\ fout[1].analysis = <<>> <=> PoseMissing
        /\ (~PoseMissing /\ KeypointsEmpty) =>
              /\ fout[1].analysis # <<>>
              /\ fout[1].analysis[1].angles = NoAngles
              /\ fout[1].analysis[1].recommendations = <<>>

\* analyzeRunningForm applied to { keypoints: [], score: 0 } returned an
\* analysis.
C22_Witness ==
    /\ Called("running")
    /\ fpose.pose = <<EmptyPose>>
    /\ fout[1].analysis # <<>>
    /\ fout[1].analysis[1].recommendations = <<>>

\* C23: the overall rating depends only on the numbers of warning and
\* success recommendations of the same analysis: bike fit is 'excellent' iff
\* 0 warnings and at least 2 successes, else 'good' iff at most 1 warning,
\* else 'needs-adjustment'; running is 'excellent' iff 0 warnings and at
\* least 3 successes, else 'good' iff at most 1 warning, else
\* 'needs-improvement'.
C23_OverallFromCounts ==
    (AnalyzerCalled /\ fout[1].analysis # <<>>) =>
        LET a == fout[1].analysis[1]
            warnings == Cardinality({n \in 1..Len(a.recommendations) :
                                        a.recommendations[n].type = "warning"})
            successes == Cardinality({n \in 1..Len(a.recommendations) :
                                        a.recommendations[n].type = "success"})
            needed == IF Called("bike") THEN 2 ELSE 3
            poor == IF Called("bike") THEN "needs-adjustment" ELSE "needs-improvement"
        IN  /\ a.overall = "excellent" <=> (warnings = 0 /\ successes >= needed)
            /\ a.overall = "good" <=> (~(warnings = 0 /\ successes >= needed) /\ warnings <= 1)
            /\ a.overall = poor <=> warnings >= 2

\* A bike-fit analysis with exactly one success and no warning, rated 'good'.
C23_Witness ==
    /\ Called("bike")
    /\ fout[1].analysis # <<>>
    /\ Len(SelectSeq(fout[1].analysis[1].recommendations, LAMBDA r : r.type = "success")) = 1
    /\ \A n \in 1..Len(fout[1].analysis[1].recommendations) :
          fout[1].analysis[1].recommendations[n].type # "warning"
    /\ fout[1].analysis[1].overall = "good"

----------------------------------------------------------------------------
(* App.tsx: handleFileChange and the analysis buttons.  Each call of the   *)
(* handler is an entry of selections with the file it was given and the    *)
(* await it is parked on ("check": checkVideoDuration, "detect":           *)
(* detectSportType, "done": returned).  The code between two awaits runs   *)
(* as one step.                                                            *)

\* Most files the user selects.
MaxSelections == 2

\* What the file input can hand to the handler: no file, a file that is not
\* a video or is too large, a video longer than 30 s or that fails to load,
\* and two valid clips.
Files == {"none", "invalid", "long", "bikeClip", "runClip"}

\* validateVideo(file) !== null
validationError(file) == file = "invalid"

\* What detectSportType(file) resolves with.
sportOfFile(file) == IF file = "bikeClip" THEN "cycling" ELSE "running"

\* The handler calls parked on the given await.
ParkedAt(at) == {h \in 1..Len(selections) : selections[h].at = at}

\* onChange of the file input: handleFileChange up to its first await
HandleFileChange ==
    /\ UNCHANGED <<runVars, sportVars, pureVars, overlapVars, detVars>>
    /\ Len(selections) < MaxSelections
    /\ \E file \in Files :
        /\ preview' = <<>>
        /\ analysisType' = <<>>
        /\ appDetected' = <<>>
        /\ IF file = "none" THEN
               /\ appError' = "" /\ video' = <<>>
               /\ selections' = Append(selections, [file |-> file, at |-> "done"])
           ELSE IF validationError(file) THEN
               /\ appError' = "Please select a valid video file" /\ video' = <<>>
               /\ selections' = Append(selections, [file |-> file, at |-> "done"])
           ELSE
               /\ appError' = "" /\ UNCHANGED video
               /\ selections' = Append(selections, [file |-> file, at |-> "check"])
    /\ UNCHANGED isDetectingSport

\* checkVideoDuration(file) resolved: the handler goes on to detectSportType
DurationResolved ==
    /\ UNCHANGED <<runVars, sportVars, pureVars, overlapVars, detVars>>
    /\ \E h \in ParkedAt("check") :
        /\ selections[h].file # "long"
        /\ video' = <<selections[h].file>>
        /\ preview' = <<selections[h].file>>
        /\ isDetectingSport' = TRUE
        /\ selections' = [selections EXCEPT ![h].at = "detect"]
    /\ UNCHANGED <<analysisType, appDetected, appError>>

\* checkVideoDuration(file) rejected: the catch block
DurationRejected ==
    /\ UNCHANGED <<runVars, sportVars, pureVars, overlapVars, detVars>>
    /\ \E h \in ParkedAt("check") :
        /\ selections[h].file = "long"
        /\ appError' = "Video duration must be less than 30 seconds"
        /\ video' = <<>>
        /\ isDetectingSport' = FALSE
        /\ selections' = [selections EXCEPT ![h].at = "done"]
    /\ UNCHANGED <<preview, analysisType, appDetected>>

\* detectSportType(file) resolved: the rest of the try block
AppSportDetected ==
    /\ UNCHANGED <<runVars, sportVars, pureVars, overlapVars, detVars>>
    /\ \E h \in ParkedAt("detect") :
        /\ appDetected' = <<sportOfFile(selections[h].file)>>
        /\ isDetectingSport' = FALSE
        /\ selections' = [selections EXCEPT ![h].at = "done"]
    /\ UNCHANGED <<video, preview, analysisType, appError>>

\* The buttons the render offers: {video && !analysisType && !isDetectingSport && ...}
buttonsOffered ==
    IF video = <<>> \/ analysisType # <<>> \/ isDetectingSport \/ appDetected = <<>> THEN {}
    ELSE (IF appDetected[1] \in {"cycling", "unknown"} THEN {"bike"} ELSE {})
         \cup (IF appDetected[1] \in {"running", "unknown"} THEN {"running"} ELSE {})

\* handleBikeAnalysis / handleRunningAnalysis, by a click on an offered button
HandleAnalysisClick ==
    /\ UNCHANGED <<runVars, sportVars, pureVars, overlapVars, detVars>>
    /\ \E type \in buttonsOffered : analysisType' = <<type>>
    /\ UNCHANGED <<video, preview, appDetected, isDetectingSport, appError, selections>>

AppInit == sport = "bike" /\ RunIdle /\ SportIdle /\ PureIdle /\ ExtIdle

AppNext ==
    \/ HandleFileChange
    \/ DurationResolved
    \/ DurationRejected
    \/ AppSportDetected
    \/ HandleAnalysisClick

AppSpec == AppInit /\ [][AppNext]_vars

\* C24: whenever the app offers analysis buttons for the selected video,
\* detectedSport is the detection result for that same video, and while the
\* detection started for the selected video is still running the 'detecting'
\* state stays set.
C24_DetectionOfSelectedVideo ==
    /\ buttonsOffered # {} => appDetected = <<sportOfFile(video[1])>>
    /\ \A h \in ParkedAt("detect") :
          (video = <<selections[h].file>> /\ h = Len(selections)) => isDetectingSport

----------------------------------------------------------------------------
(* useVideoAnalysis.ts: analyzeVideo started again while an earlier run is *)
(* still in progress.  The runs share the hook's state and the one video   *)
(* element of videoRef, whose event handlers each run overwrites with its  *)
(* own callbacks.  A run is parked on "init" (initializePoseDetector),     *)
(* "load" (loadedmetadata), "seekMid", and per frame on "seek", "delay"    *)
(* and "detect".  The analysis and the error the hook shows are recorded   *)
(* by the number of the run that set them (0: null and '').                *)

Started == {r \in 1..MaxRuns : runs[r].at # "idle"}
InProgress == {r \in 1..MaxRuns : runs[r].at \notin {"idle", "done"}}

\* catch (err) { setError(...) } finally { setIsAnalyzing(false) }
runCaught(r) ==
    /\ shown' = [shown EXCEPT !.error = r, !.isAnalyzing = FALSE]
    /\ runs' = [runs EXCEPT ![r].at = "done"]

\* The effect fires (videoFile or analyzeVideo changed) or the caller invokes
\* the returned analyzeVideo: the next run starts, up to its first await
StartRun ==
    /\ UNCHANGED <<runVars, sportVars, pureVars, appVars, detVars>>
    /\ \E r \in 1..MaxRuns :
        /\ runs[r].at = "idle"
        /\ IF r = 1 THEN TRUE ELSE runs[r - 1].at \notin {"idle", "done"}
        /\ shown' = [shown EXCEPT !.isAnalyzing = TRUE, !.error = 0]
        /\ runs' = [runs EXCEPT ![r].at = "init"]
    /\ UNCHANGED handlers

\* initializePoseDetector() resolved: the run installs its load handlers
RunInitResolved ==
    /\ UNCHANGED <<runVars, sportVars, pureVars, appVars, detVars>>
    /\ \E r \in 1..MaxRuns :
        /\ runs[r].at = "init"
        /\ handlers' = [handlers EXCEPT !.onloadedmetadata = r, !.onerror = r]
        /\ runs' = [runs EXCEPT ![r].at = "load"]
    /\ UNCHANGED shown

\* initializePoseDetector() rejected
RunInitRejected ==
    /\ UNCHANGED <<runVars, sportVars, pureVars, appVars, detVars>>
    /\ \E r \in 1..MaxRuns : runs[r].at = "init" /\ runCaught(r)
    /\ UNCHANGED handlers

\* The video fires loadedmetadata: the installed handler resolves its run's
\* promise; that run checks the dimensions and seeks to the middle
RunMetadataLoaded ==
    /\ UNCHANGED <<runVars, sportVars, pureVars, appVars, detVars>>
    /\ LET r == handlers.onloadedmetadata
       IN  /\ r # 0
           /\ runs[r].at = "load"
           /\ \/ /\ runs' = [runs EXCEPT ![r].at = "seekMid"]
                 /\ handlers' = [handlers EXCEPT !.onseeked = r]
                 /\ UNCHANGED shown
              \/ runCaught(r) /\ UNCHANGED handlers

\* The video fires error: the installed handler rejects its run's promise
RunVideoError ==
    /\ UNCHANGED <<runVars, sportVars, pureVars, appVars, detVars>>
    /\ LET r == handlers.onerror
       IN  r # 0 /\ runs[r].at = "load" /\ runCaught(r)
    /\ UNCHANGED handlers

\* The video fires seeked: the installed handler resolves its run's promise
RunSeeked ==
    /\ UNCHANGED <<runVars, sportVars, pureVars, appVars, detVars>>
    /\ LET r == handlers.onseeked
       IN  /\ r # 0
           /\ \/ /\ runs[r].at = "seekMid"
                 /\ runs' = [runs EXCEPT ![r].at = "seek", ![r].i = 1]
              \/ /\ runs[r].at = "seek"
                 /\ runs' = [runs EXCEPT ![r].at = "delay"]
    /\ UNCHANGED <<shown, handlers>>

\* The 100 ms timer of a run fires
RunFrameDelay ==
    /\ UNCHANGED <<runVars, sportVars, pureVars, appVars, detVars>>
    /\ \E r \in 1..MaxRuns :
        /\ runs[r].at = "delay"
        /\ runs' = [runs EXCEPT ![r].at = "detect"]
    /\ UNCHANGED <<shown, handlers>>

\* detectPose(video) settled for a run: the frame is kept or dropped; after
\* the last frame the run combines, sets the state and returns
RunDetectSettled ==
    /\ UNCHANGED <<runVars, sportVars, pureVars, appVars, detVars>>
    /\ \E r \in 1..MaxRuns, usable \in BOOLEAN :
        /\ runs[r].at = "detect"
        /\ LET found == runs[r].found \/ usable
           IN  IF runs[r].i < framesToAnalyze THEN
                   /\ runs' = [runs EXCEPT ![r].at = "seek", ![r].i = @ + 1,
                                           ![r].found = found]
                   /\ handlers' = [handlers EXCEPT !.onseeked = r]
                   /\ UNCHANGED shown
               ELSE
                   /\ runs' = [runs EXCEPT ![r].at = "done", ![r].found = found]
                   /\ shown' = IF found
                               THEN [shown EXCEPT !.analysis = r, !.isAnalyzing = FALSE]
                               ELSE [shown EXCEPT !.error = r, !.isAnalyzing = FALSE]
                   /\ UNCHANGED handlers

OverlapInit == sport = "bike" /\ RunIdle /\ SportIdle /\ PureIdle /\ ExtIdle

OverlapNext ==
    \/ StartRun
    \/ RunInitResolved
    \/ RunInitRejected
    \/ RunMetadataLoaded
    \/ RunVideoError
    \/ RunSeeked
    \/ RunFrameDelay
    \/ RunDetectSettled

OverlapSpec == OverlapInit /\ [][OverlapNext]_vars

\* The most recently started run.
LatestRun == CHOOSE r \in Started : \A q \in Started : q <= r

\* C25: once a later run has started on the same video element, the
\* analysis, error and isAnalyzing state shown are those of the most recently
\* started run: an earlier run does not set the analysis or the error, and
\* isAnalyzing stays set while the latest run is in progress.
C25_LatestRunOwnsState ==
    Cardinality(Started) > 1 =>
        /\ shown.analysis \in {0, LatestRun}
        /\ shown.error \in {0, LatestRun}
        /\ LatestRun \in InProgress => shown.isAnalyzing

----------------------------------------------------------------------------
(* poseDetection.ts: initializePoseDetector and detectPose called          *)
(* concurrently.  detector is the module variable (0: null); every         *)
(* createDetector call makes a new detector, numbered by createCalls.  A   *)
(* caller is parked on "create" (the await of createDetector, holding in   *)
(* got the detector that call will give) and ends "done" with the detector *)
(* it returned or ran estimatePoses on, or "failed".                       *)

\* initializePoseDetector() or detectPose(video) is called: up to the first
\* await
CallDetector ==
    /\ UNCHANGED <<runVars, sportVars, pureVars, appVars, overlapVars>>
    /\ \E c \in 1..MaxCallers, fn \in {"initializePoseDetector", "detectPose"} :
        /\ callers[c].at = "idle"
        /\ IF detector # 0 THEN
               /\ callers' = [callers EXCEPT ![c] = [fn |-> fn, at |-> "done", got |-> detector]]
               /\ UNCHANGED createCalls
           ELSE
               /\ createCalls' = createCalls + 1
               /\ callers' = [callers EXCEPT
                                ![c] = [fn |-> fn, at |-> "create", got |-> createCalls + 1]]
    /\ UNCHANGED detector

\* createDetector resolved for a caller: detector = await ...; return detector
\* (detectPose then uses the module variable)
CreateResolved ==
    /\ UNCHANGED <<runVars, sportVars, pureVars, appVars, overlapVars>>
    /\ \E c \in 1..MaxCallers :
        /\ callers[c].at = "create"
        /\ detector' = callers[c].got
        /\ callers' = [callers EXCEPT ![c].at = "done"]
    /\ UNCHANGED createCalls

\* createDetector rejected for a caller
CreateRejected ==
    /\ UNCHANGED <<runVars, sportVars, pureVars, appVars, overlapVars>>
    /\ \E c \in 1..MaxCallers :
        /\ callers[c].at = "create"
        /\ callers' = [callers EXCEPT ![c].at = "failed", ![c].got = 0]
    /\ UNCHANGED <<detector, createCalls>>

DetInit == sport = "bike" /\ RunIdle /\ SportIdle /\ PureIdle /\ ExtIdle

DetNext ==
    \/ CallDetector
    \/ CreateResolved
    \/ CreateRejected

DetSpec == DetInit /\ [][DetNext]_vars

\* C30: across any interleaving of calls to initializePoseDetector and
\* detectPose at most one detector is ever created, and the callers that
\* ended with a detector all have the same one.
C30_SingleDetector ==
    /\ createCalls <= 1
    /\ \A c, d \in 1..MaxCallers :
          (callers[c].at = "done" /\ callers[d].at = "done") => callers[c].got = callers[d].got

----------------------------------------------------------------------------
(* Properties of the run's object URL *)

\* C27: every object URL created by a video-analysis run is revoked by the
\* time that run ends, whether it ends normally or with an error.
C27_UrlRevokedAtEnd == pc = "done" => urlState # "created"

----------------------------------------------------------------------------
(* The enhancer output as a reordering of its input *)

\* Output recommendation out comes from input recommendation rec.
SameRecommendation(out, rec) ==
    /\ out.area = rec.area /\ out.message = rec.message
    /\ out.type = rec.type /\ out.angle = rec.angle

\* The output has as many recommendations as the input, each the copy of one
\* input recommendation, with those of equal priorityScore in input order.
ReorderingOfInput ==
    (EnhancerCalled /\ ~noRecommendations(fpose.pose)) =>
        LET input == fpose.pose[1].recommendations
            out == fout[1].enhanced
        IN  /\ Len(out) = Len(input)
            /\ \E from \in Permutations(1..Len(input)) :
                  /\ \A k \in 1..Len(out) : SameRecommendation(out[k], input[from[k]])
                  /\ \A j, k \in 1..Len(out) :
                        (j < k /\ out[j].priorityScore = out[k].priorityScore) =>
                            from[j] < from[k]

\* C29: the enhancer output is a reordering of its input: it has the same
\* number of recommendations, each keeps its original area, message, type
\* and angle, recommendations with equal priorityScore keep their input
\* relative order, and the call leaves the input analysis as it was.
C29_StableReordering == []ReorderingOfInput /\ [][fpose' = fpose]_vars

\* A 'General' recommendation, a knee recommendation well outside the range
\* and a knee recommendation without an angle, in that order: the graded one
\* moves to the front and the two minor ones keep their order.
C29_Witness ==
    /\ Called("enhanceBikeFitRecommendations")
    /\ ~noRecommendations(fpose.pose)
    /\ Len(fpose.pose[1].recommendations) = 3
    /\ fpose.pose[1].recommendations[1].area = "General"
    /\ fpose.pose[1].recommendations[2].area = "Knee Angle"
    /\ fpose.pose[1].recommendations[2].angle = 100
    /\ fpose.pose[1].recommendations[3].area = "Knee Angle"
    /\ fpose.pose[1].recommendations[3].angle = Undefined
    /\ fout[1].enhanced[1].angle = 100
    /\ fout[1].enhanced[2].area = "General"
    /\ fout[1].enhanced[3].angle = Undefined
    /\ fout[1].enhanced[2].priorityScore = fout[1].enhanced[3].priorityScore

----------------------------------------------------------------------------
(* Properties of the frame renderer *)

\* C26: for every playback time in [0, duration] with at least one cached
\* frame, the two indices used for the cached-pose fallback lie within
\* 0..length-1, so a cached overlay is drawn whenever real-time detection
\* yields no usable pose, including at currentTime equal to duration.
C26_FallbackIndicesInRange ==
    (Called("handleFrameChange") /\ fpose.pose[1].canvas = "ok" /\ fpose.pose[1].length > 0) =>
        /\ fout[1].frameIndex \in 0..(fpose.pose[1].length - 1)
        /\ fout[1].nextFrameIndex \in 0..(fpose.pose[1].length - 1)
        /\ fpose.pose[1].detected # "usable" => fout[1].overlay = "cached"

=============================================================================
